---- MODULE Spec2Model ----
(***************************************************************************)
(* A model of the completion orchestration layer of rimeLLM               *)
(* (src/src/backend/providers.py): the retry loop of Provider.complete     *)
(* and the fallback protocol of ProviderManager.                           *)
(*                                                                         *)
(* Spec        one Provider.complete call on a stand-alone provider        *)
(* FairSpec    Spec with the fairness of the event loop                    *)
(* SpecManager a ProviderManager: registration, active/fallback selection, *)
(*             complete_with_fallback and stream_with_fallback             *)
(* SpecStream  one Provider.stream_complete read over a given response     *)
(* SpecProvider one provider serving complete and test_connection calls    *)
(*                                                                         *)
(* of the strategy layer (src/src/backend/strategy.py):                    *)
(*                                                                         *)
(* SpecMatcher a StrategyMatcher serving match_strategies calls            *)
(* SpecThreads two threads calling match_strategies on one matcher         *)
(* SpecChain   a StrategyChain: add_dependency and build_chain             *)
(* SpecExecute StrategyChain.execute_chain, step by step                   *)
(* SpecFeedback a StrategyEngine: set_preferences and learn_from_feedback  *)
(* SpecEngine  a StrategyEngine: set_preferences, match, select_strategy   *)
(*                                                                         *)
(* and of the text operations (src/src/backend/text_processor.py):         *)
(*                                                                         *)
(* SpecProcessor a TextProcessor over a ProviderManager                    *)
(*                                                                         *)
(* and of the Rime integration (src/src/backend/rime.py):                  *)
(*                                                                         *)
(* SpecCallbacks a RimeClient: on_context, on_suggestion, _process_message *)
(* SpecRime    a RimeClient: connect, disconnect, _message_handler and     *)
(*             _reconnect                                                  *)
(* FairSpecRime SpecRime with the fairness of the event loop               *)
(***************************************************************************)
EXTENDS Integers, Sequences, FiniteSets, TLC

VARIABLES
    providers,          \* ProviderManager._providers: kind -> retry_count of the registered provider
    active_provider,    \* ProviderManager._active_provider
    fallback_provider,  \* ProviderManager._fallback_provider
    mgr,                \* the frame of complete_with_fallback / stream_with_fallback in flight
    call,               \* the frame of the Provider.complete in flight
    strm,               \* the frame of the Provider.stream_complete in flight
    yielded,            \* the chunks the consumer of stream_with_fallback has received
    cache,              \* StrategyMatcher._match_cache: its entries in insertion order
    last,               \* the latest StrategyMatcher.match_strategies call and what it returned
    deps,               \* StrategyChain._dependencies: kind -> the kinds declared for it, in order
    chain,              \* the frame of the latest StrategyChain.build_chain call
    exec,               \* the frame of the latest StrategyChain.execute_chain call
    engine,             \* StrategyEngine._preferences and its learned_preferences
    threads,            \* the frames of match_strategies calls running on two threads
    proc,               \* the frame of the TextProcessor operation in flight
    resp,               \* the lines of the streamed response a stream_complete reads
    probe,              \* the frame of the latest Provider.test_connection call
    cfg,                \* the exception the latest ProviderManager configuration call raised
    rime,               \* the fields of the RimeClient
    tasks               \* the RimeClient's tasks and the frame of its _process_message

vars == <<providers, active_provider, fallback_provider, mgr, call, strm, yielded,
          cache, last, deps, chain, exec, engine, threads, proc, resp, probe, cfg,
          rime, tasks>>

mgrVars == <<providers, active_provider, fallback_provider>>

engineVars == <<exec, engine, threads>>

rimeVars == <<rime, tasks>>

strategyVars == <<cache, last, deps, chain, engineVars, rimeVars>>

ioVars == <<proc, resp, probe, cfg, rimeVars>>

-----------------------------------------------------------------------------
(* Bounds of the model *)

\* The largest retry_count a stand-alone provider is constructed with.
MaxRetry == 3

\* The largest number of lines one streamed HTTP response delivers.
MaxLines == 2

-----------------------------------------------------------------------------
(* Values *)

None == "None"

\* class ProviderType
ProviderType == {"openai", "anthropic", "local", "custom"}

\* The kinds create_provider has a class for.
ProviderKinds == {"openai", "anthropic", "local"}

\* ProviderConfig.retry_count: int = 3
DefaultRetryCount == 3

\* self.model = config.model or <the variant's default>
DefaultModel(kind) ==
    CASE kind = "openai" -> "gpt-3.5-turbo"
      [] kind = "anthropic" -> "claude-sonnet-4-20250514"
      [] OTHER -> "llama3"

\* The prefix of the Exception a variant raises on a terminal status.
ApiError(kind) ==
    CASE kind = "openai" -> "OpenAI API error"
      [] kind = "anthropic" -> "Anthropic API error"
      [] OTHER -> "Local API error"

\* What one client.post can end in: a response with a status (its body decodes),
\* httpx.TimeoutException, or any other exception raised inside the try block
\* (a connection error, a body that does not decode).
Response(status) == [exc |-> "none", status |-> status]
Timeout == [exc |-> "TimeoutException", status |-> 0]
OtherError == [exc |-> "ConnectError", status |-> 0]
Outcomes == {Response(200), Response(429), Response(500), Timeout, OtherError}

\* The completion texts a backend may answer with.
Contents == {"c1", " c2 "}

\* ChatCompletion(content, model); usage and raw_response carry no control flow.
ChatCompletion(content, model) == [content |-> content, model |-> model]
NoResult == [content |-> "", model |-> ""]

\* An exception object: its type/message and the provider invocation that raised it
\* (0: raised by the manager itself).
Error(exc, inv) == [exc |-> exc, inv |-> inv]
NoError == Error("none", 0)

-----------------------------------------------------------------------------
(* Provider.complete: the retry loop, common to the three variants *)

RECURSIVE Pow2(_)
Pow2(n) == IF n <= 0 THEN 1 ELSE 2 * Pow2(n - 1)

\* range(self.config.retry_count)
InRangeOffByOne(attempt, retry_count) == attempt <= retry_count
InRange(attempt, retry_count) == attempt < retry_count

\* asyncio.sleep(2 ** attempt)
BackoffConstant(attempt) == 1
Backoff(attempt) == Pow2(attempt)

\* if response.status_code == 429 (OpenAI, Anthropic); the Local variant has no such branch.
RetriesAnyStatus(kind, status) == kind \in {"openai", "anthropic"} /\ status # 200
RetriesStatus(kind, status) == kind \in {"openai", "anthropic"} /\ status = 429

\* except httpx.TimeoutException: if attempt < self.config.retry_count - 1
RetriesEveryTimeout(attempt, retry_count) == attempt < retry_count
RetriesTimeout(attempt, retry_count) == attempt < retry_count - 1

IdleCall ==
    [pc |-> "idle", kind |-> None, retry_count |-> 0, inv |-> 0, attempt |-> 0,
     log |-> <<>>, delays |-> <<>>, result |-> NoResult, error |-> NoError]

Returns(f, completion) == [f EXCEPT !.pc = "returned", !.result = completion]
Raises(f, exc) == [f EXCEPT !.pc = "raised", !.error = Error(exc, f.inv)]
Sleeps(f, seconds) == [f EXCEPT !.pc = "sleep", !.delays = Append(@, seconds)]

\* for attempt in range(retry_count): ... ; raise Exception("Max retries exceeded")
LoopHead(f) ==
    IF InRange(f.attempt, f.retry_count)
    THEN [f EXCEPT !.pc = "post"]
    ELSE Raises(f, "Max retries exceeded")

\* The frame of a complete call that has just been entered.
NewCall(kind, retry_count, inv) ==
    LoopHead([IdleCall EXCEPT !.kind = kind, !.retry_count = retry_count, !.inv = inv])

\* One pass of the loop body: client.post has ended in outcome o (content c on a 200).
AfterPost(f, o, c) ==
    LET g == [f EXCEPT !.log = Append(@, o)] IN
    CASE o.exc = "TimeoutException" ->
            IF RetriesTimeout(g.attempt, g.retry_count)
            THEN Sleeps(g, 1)
            ELSE Raises(g, "TimeoutException")
      [] o.exc = "none" /\ o.status = 200 ->
            Returns(g, ChatCompletion(c, DefaultModel(g.kind)))
      [] o.exc = "none" /\ o.status # 200 ->
            IF RetriesStatus(g.kind, o.status)
            THEN Sleeps(g, Backoff(g.attempt))
            ELSE Raises(g, ApiError(g.kind))
      [] OTHER -> Raises(g, o.exc)

\* asyncio.sleep is over: continue with the next attempt.
AfterSleep(f) == LoopHead([f EXCEPT !.attempt = @ + 1])

Terminal(f) == f.pc \in {"returned", "raised"}
Running(f) == f.pc \in {"post", "sleep"}

\* await client.post(...)
Post ==
    /\ call.pc = "post"
    /\ \E o \in Outcomes : \E c \in Contents :
          /\ (o # Response(200) => c = "c1")
          /\ call' = AfterPost(call, o, c)
    /\ UNCHANGED <<strategyVars, ioVars, mgrVars, mgr, strm, yielded>>

\* await asyncio.sleep(...)
Wake ==
    /\ call.pc = "sleep"
    /\ call' = AfterSleep(call)
    /\ UNCHANGED <<strategyVars, ioVars, mgrVars, mgr, strm, yielded>>

-----------------------------------------------------------------------------
(* Frames of the manager and of the stream; used by SpecManager *)

\* A provider object: its kind and its config's retry_count; NoProvider is None.
Provider(kind, retry_count) == [kind |-> kind, retry_count |-> retry_count]
NoProvider == Provider(None, 0)

\* The frame of complete_with_fallback or stream_with_fallback.
\*   e        the exception bound by "except Exception as e"
\*   events   the provider invocations of this call, as they started and ended
\*   first    what the active provider's stream had yielded when it ended
\*   fallback_at_start  self._fallback_provider as complete_with_fallback was called
IdleMgr ==
    [pc |-> "idle", op |-> None, result |-> NoResult, error |-> NoError,
     e |-> NoError, events |-> <<>>, first |-> <<>>, fallback_at_start |-> None]

\* The frame of one stream_complete generator.
\*   lines    the lines read from the response so far
\*   emitted  the chunks the generator has yielded
IdleStream ==
    [pc |-> "idle", kind |-> None, inv |-> 0, lines |-> 0,
     emitted |-> <<>>, error |-> NoError]

-----------------------------------------------------------------------------
(* Frames of the strategy layer; used by SpecMatcher and SpecChain *)

\* class StrategyType(Enum)
StrategyType ==
    {"correction", "expansion", "translation", "summarization", "completion", "custom"}

\* class StrategyPriority(Enum)
LOW == 1
MEDIUM == 5
HIGH == 10
CRITICAL == 100
StrategyPriority == {LOW, MEDIUM, HIGH, CRITICAL}

\* @dataclass UserPreferences; strategy_priorities maps a kind to the integer the
\* user gave for it, 0 where the dict has no entry (both are falsy in the code).
\* given is FALSE for preferences=None only.
UserPreferences(correction, expansion, translation, summarization, priorities) ==
    [given |-> TRUE,
     correction_enabled |-> correction, expansion_enabled |-> expansion,
     translation_enabled |-> translation, summarization_enabled |-> summarization,
     strategy_priorities |-> priorities]

NoOverrides == [strategy \in StrategyType |-> 0]

NoPreferences ==
    [UserPreferences(FALSE, FALSE, FALSE, FALSE, NoOverrides) EXCEPT !.given = FALSE]

\* context: Optional[Dict]; a dict is the set of its (key, value) items.
Dict(items) == [given |-> TRUE, items |-> items]
NoContext == [given |-> FALSE, items |-> {}]

\* The record of one match_strategies call, as its caller sees it.
\*   hit       the fingerprint was in the cache when the call was made
\*   raised    the exception the call ended with, None when it returned
\*   result    the list it returned
\*   evicted   the keys it deleted from the cache
\*   repeated  the call before it had the same text, context and preferences
\*   before    when repeated: the list that call returned, as its caller sees it
\*             now (the StrategyMatch objects of a cached list are shared)
NoCall ==
    [text |-> None, context |-> NoContext, preferences |-> NoPreferences, hit |-> FALSE,
     raised |-> None, result |-> <<>>, evicted |-> {}, repeated |-> FALSE,
     before |-> <<>>]

\* self._dependencies = defaultdict(list)
NoDependencies == [strategy \in StrategyType |-> <<>>]

\* The frame of build_chain: the matches it was given and the chain it returned.
IdleChain == [pc |-> "idle", matches |-> <<>>, result |-> <<>>]

\* No execute_chain call yet: the text handed in, the chain, the position in it,
\* the running text, what is returned, and the transform invocations made.
IdleExec == [pc |-> "idle", text |-> <<>>, chain |-> <<>>, i |-> 0,
             result |-> <<>>, returned |-> <<>>, log |-> <<>>]

\* StrategyEngine(): no preferences set (self._preferences = None). learned is
\* the learned_preferences of the preferences object, in tenths; feedback is the
\* latest learn_from_feedback call.
NoFeedback == [key |-> <<>>, accepted |-> FALSE, before |-> <<>>, calls |-> 0]
NewEngine == [preferences |-> NoPreferences, learned |-> <<>>, feedback |-> NoFeedback]

\* The threads that call match_strategies on one StrategyMatcher.
Threads == {1, 2}
\*   used        the size of the dict when iter(self._match_cache) was made
\*   oldest_key  the key next(...) gave
IdleThread == [pc |-> "idle", text |-> "", cache_key |-> <<>>, matches |-> <<>>,
               used |-> 0, oldest_key |-> <<>>, raised |-> None, result |-> <<>>]
NoThreads == [t \in Threads |-> IdleThread]

\* No TextProcessor operation in flight.
\*   text           the text the operation was called with
\*   original_text  the field of that name of the ProcessingResult returned
\*   raised         the exception that left the operation, None when none did
IdleProc ==
    [pc |-> "idle", op |-> None, text |-> "", original_text |-> "",
     processed_text |-> <<>>, confidence |-> 0, raised |-> None,
     e |-> NoError, fallback |-> None]

\* RimeClient.__init__
NewRimeClient ==
    [websocket |-> None, websocket_module |-> None, connected |-> FALSE,
     context_callbacks |-> <<>>, suggestion_callbacks |-> <<>>,
     reconnect_attempts |-> 0, mock_mode |-> FALSE]

\* The tasks of a RimeClient, which carry no state but where they stand, and the
\* frame of _process_message.
\*   websockets  whether __import__('websockets') succeeds: "unknown" until tried
\*   handlers    the _message_handler tasks that iterate over a websocket
\*   current     one of them iterates over self.websocket
\*   sleeping    the _reconnect calls in asyncio.sleep(2)
\*   connecting  the connect calls in "await websockets.connect(...)"
\*   closed      a handler has seen ConnectionClosed and no connect succeeded since
\*   pc, type    where _process_message stands and the type of its message
\*   i           the index of the callback the loop calls next
\*   invoked     the callbacks called so far: the list each is from and which it is
NoTasks ==
    [websockets |-> "unknown", handlers |-> 0, current |-> FALSE, sleeping |-> 0,
     connecting |-> 0, closed |-> FALSE, pc |-> "idle", type |-> None, i |-> 0, invoked |-> <<>>]

\* No test_connection call yet.
IdleProbe ==
    [pc |-> "idle", kind |-> None, outcome |-> Response(0), result |-> FALSE,
     raised |-> None]

-----------------------------------------------------------------------------
(* Spec: a caller awaits complete on a provider built with a given retry_count *)

Complete ==
    /\ call.pc = "idle"
    /\ \E kind \in ProviderKinds : \E n \in 0..MaxRetry :
          call' = NewCall(kind, n, 1)
    /\ UNCHANGED <<strategyVars, ioVars, mgrVars, mgr, strm, yielded>>

\* The caller has the result or the exception; the frame is gone.
Done ==
    /\ Terminal(call)
    /\ mgr.pc = "idle"
    /\ call' = IdleCall
    /\ UNCHANGED <<strategyVars, ioVars, mgrVars, mgr, strm, yielded>>

Init ==
    /\ providers = << >>
    /\ active_provider = None
    /\ fallback_provider = None
    /\ mgr = IdleMgr
    /\ call = IdleCall
    /\ strm = IdleStream
    /\ yielded = <<>>
    /\ cache = <<>>
    /\ last = NoCall
    /\ deps = NoDependencies
    /\ chain = IdleChain
    /\ exec = IdleExec
    /\ engine = NewEngine
    /\ threads = NoThreads
    /\ proc = IdleProc
    /\ resp = <<>>
    /\ probe = IdleProbe
    /\ cfg = None
    /\ rime = NewRimeClient
    /\ tasks = NoTasks

Next == Complete \/ Post \/ Wake \/ Done

Spec == Init /\ [][Next]_vars

\* The backend answers or the request times out (timeout=self.config.timeout), and
\* a sleep ends: the event loop resumes the coroutine.
FairSpec == Spec /\ WF_vars(Post) /\ WF_vars(Wake)

-----------------------------------------------------------------------------
(* Claims about Provider.complete, checked under Spec and FairSpec *)

RateLimited == Response(429)
Ok == Response(200)
ServerError == Response(500)

\* The first k delays of the exponential backoff: 2^0, ..., 2^(k-1) seconds.
ExpDelays(k) == [i \in 1..k |-> 2 ^ (i - 1)]

\* k delays of one second.
UnitDelays(k) == [i \in 1..k |-> 1]

Min(a, b) == IF a < b THEN a ELSE b

\* The log of the call so far is a prefix of: `first` on the attempts before the
\* last one of retry_count, then a 200 on the last attempt.
PrefixOfAllThenOk(f, first) ==
    /\ Len(f.log) <= f.retry_count
    /\ \A i \in 1..Len(f.log) :
          f.log[i] = (IF i < f.retry_count THEN first ELSE Ok)

\* C7: for the OpenAI-like and Anthropic-like providers with retry_count = n >= 1,
\* a backend answering 429 on the first n-1 attempts and 200 on the n-th makes
\* complete succeed after exactly n HTTP calls, the delays between consecutive
\* attempts being 2^0, 2^1, ..., 2^(n-2) seconds; the call neither ends nor
\* stalls part-way through that scenario.
C7_BackoffSucceedsOnLastAttempt ==
    (/\ call.pc # "idle"
     /\ call.kind \in {"openai", "anthropic"}
     /\ call.retry_count >= 1
     /\ PrefixOfAllThenOk(call, RateLimited))
    => LET n == call.retry_count
           k == Len(call.log)
       IN  /\ call.delays = ExpDelays(Min(k, n - 1))
           /\ \A i \in 1..Len(call.delays) : \A j \in 1..Len(call.delays) :
                 i < j => call.delays[i] < call.delays[j]
           /\ IF k = n
              THEN call.pc = "returned" /\ call.error = NoError
              ELSE Running(call)

C7_Witness ==
    /\ call.pc = "returned"
    /\ call.kind = "anthropic"
    /\ call.retry_count = 3
    /\ call.log = <<RateLimited, RateLimited, Ok>>
    /\ call.delays = <<1, 2>>

\* C8: every complete call ends, with a ChatCompletion or a raised failure, after
\* at most retry_count HTTP calls, whatever the backend answers; it ends in
\* failure when every attempt was a 429 or a timeout, and with retry_count = 0
\* it fails without any HTTP call.
C8_TerminatesWithinRetryCount ==
    /\ [](Len(call.log) <= call.retry_count)
    /\ []((Terminal(call) /\ \A i \in 1..Len(call.log) : call.log[i] \in {RateLimited, Timeout})
            => call.pc = "raised" /\ call.error # NoError /\ call.result = NoResult)
    /\ []((call.pc # "idle" /\ call.retry_count = 0)
            => call.pc = "raised" /\ call.log = <<>>)
    /\ [](call.pc = "returned" => call.result # NoResult /\ call.error = NoError)
    /\ (Running(call) ~> Terminal(call))

C8_Witness ==
    /\ call.pc = "raised"
    /\ call.retry_count = 3
    /\ call.log = <<Timeout, RateLimited, Timeout>>

\* C9: a timed-out attempt is retried after a 1-second delay: k < retry_count
\* time-outs followed by a 200 succeed after exactly k+1 HTTP calls and k
\* one-second delays; retry_count time-outs in a row fail after exactly
\* retry_count HTTP calls and retry_count - 1 delays, none after the last attempt.
C9_TimeoutRetriesEverySecond ==
    LET n == call.retry_count
        k == Len(call.log)
    IN
    /\ (call.pc # "idle" /\ \A i \in 1..k : call.log[i] = Timeout)
         => /\ k <= n
            /\ call.delays = UnitDelays(Min(k, n - 1))
            /\ IF k = n
               THEN call.pc = "raised" /\ (n > 0 => call.error.exc = "TimeoutException")
               ELSE Running(call)
    /\ (/\ call.pc # "idle"
        /\ k >= 1
        /\ call.log[k] = Ok
        /\ \A i \in 1..(k - 1) : call.log[i] = Timeout)
         => /\ call.pc = "returned"
            /\ k <= n
            /\ call.delays = UnitDelays(k - 1)

C9_Witness ==
    /\ call.pc = "raised"
    /\ call.retry_count = 3
    /\ call.log = <<Timeout, Timeout, Timeout>>
    /\ call.delays = <<1, 1>>

\* C10: a response whose status is neither 200 nor 429 ends complete on that
\* attempt with the variant's backend error: no HTTP call and no backoff delay
\* follows it, however many attempts remain.
C10_OtherStatusIsTerminal ==
    \A i \in 1..Len(call.log) :
        (call.log[i].exc = "none" /\ call.log[i].status \notin {200, 429})
        => /\ i = Len(call.log)
           /\ call.pc = "raised"
           /\ call.error.exc = ApiError(call.kind)
           /\ Len(call.delays) = i - 1

C10_Witness ==
    /\ call.pc = "raised"
    /\ call.kind = "openai"
    /\ call.retry_count = 3
    /\ call.log = <<RateLimited, ServerError>>
    /\ call.delays = <<1>>

\* The frame f run to its end against a backend that answers with the outcomes of
\* `script` in turn: the loop of complete, applied pass by pass.
RECURSIVE Replay(_, _)
Replay(f, script) ==
    IF Terminal(f) THEN f
    ELSE IF f.pc = "sleep" THEN Replay(AfterSleep(f), script)
    ELSE IF script = <<>> THEN f
    ELSE Replay(AfterPost(f, Head(script), "c1"), Tail(script))

\* The variant `kind`, built with the retry_count of the call in flight and given
\* the outcomes that call has seen, makes the same number of HTTP calls, sleeps
\* the same delays and ends the same way.
AgreesWith(kind) ==
    LET g == Replay(NewCall(kind, call.retry_count, call.inv), call.log)
    IN  /\ g.pc = call.pc
        /\ Len(g.log) = Len(call.log)
        /\ g.delays = call.delays

NoRateLimit(log) == \A i \in 1..Len(log) : log[i] # RateLimited

-----------------------------------------------------------------------------
(* ProviderManager: the registry and the active / fallback selection *)

\* self._providers.get(kind)
providers_get(kind) ==
    IF kind \in DOMAIN providers THEN Provider(kind, providers[kind]) ELSE NoProvider

\* get_active_provider
get_active_or_fallback ==
    IF active_provider # None THEN providers_get(active_provider)
    ELSE IF fallback_provider # None THEN providers_get(fallback_provider)
    ELSE NoProvider
get_active_provider ==
    IF active_provider # None THEN providers_get(active_provider) ELSE NoProvider

\* if self._fallback_provider: fallback = self._providers.get(self._fallback_provider)
no_fallback == NoProvider
active_as_fallback == get_active_provider
fallback_when_called ==
    IF mgr.fallback_at_start # None THEN providers_get(mgr.fallback_at_start)
    ELSE NoProvider
get_fallback ==
    IF fallback_provider # None THEN providers_get(fallback_provider) ELSE NoProvider

\* register_provider(create_provider(ProviderConfig(type=kind, ...))): the config's
\* retry_count is the dataclass default.
register_provider(kind) ==
    /\ providers' = [k \in DOMAIN providers \cup {kind} |->
                        IF k = kind THEN DefaultRetryCount ELSE providers[k]]
    /\ cfg' = None
    /\ UNCHANGED <<strategyVars, proc, resp, probe, active_provider, fallback_provider,
                   mgr, call, strm, yielded>>

\* raise ValueError(f"Provider {provider_type} not registered")
NotRegistered == "ValueError: Provider not registered"

\* if provider_type in self._providers: set it; else: raise ValueError(...)
AnyKind(kind) == TRUE
Registered(kind) == kind \in DOMAIN providers

set_active_provider(kind) ==
    /\ active_provider' = IF Registered(kind) THEN kind ELSE active_provider
    /\ cfg' = IF Registered(kind) THEN None ELSE NotRegistered
    /\ UNCHANGED <<strategyVars, proc, resp, probe, providers, fallback_provider,
                   mgr, call, strm, yielded>>

set_fallback_provider(kind) ==
    /\ fallback_provider' = IF Registered(kind) THEN kind ELSE fallback_provider
    /\ cfg' = IF Registered(kind) THEN None ELSE NotRegistered
    /\ UNCHANGED <<strategyVars, proc, resp, probe, providers, active_provider,
                   mgr, call, strm, yielded>>

-----------------------------------------------------------------------------
(* ProviderManager.complete_with_fallback *)

\* raise ValueError("No active provider configured")
ConfigError == Error("ValueError: No active provider configured", 0)

Event(ev, role, kind) == [ev |-> ev, role |-> role, kind |-> kind]

\* The entry of the coroutine, up to "await active.complete(messages, stream)".
complete_with_fallback ==
    /\ mgr.pc = "idle"
    /\ LET active == get_active_provider IN
       IF active = NoProvider
       THEN /\ mgr' = [IdleMgr EXCEPT !.pc = "raised", !.op = "complete",
                                      !.error = ConfigError]
            /\ UNCHANGED call
       ELSE /\ mgr' = [IdleMgr EXCEPT !.pc = "active", !.op = "complete",
                          !.events = <<Event("start", "active", active.kind)>>,
                          !.fallback_at_start = fallback_provider]
            /\ call' = NewCall(active.kind, active.retry_count, 1)
    /\ UNCHANGED <<strategyVars, ioVars, mgrVars, strm, yielded>>

\* return await active.complete(messages, stream)
ActiveReturns ==
    /\ mgr.op = "complete" /\ mgr.pc = "active" /\ call.pc = "returned"
    /\ mgr' = [mgr EXCEPT !.pc = "returned", !.result = call.result,
                          !.events = Append(@, Event("ok", "active", call.kind))]
    /\ UNCHANGED <<strategyVars, ioVars, mgrVars, call, strm, yielded>>

\* except Exception as e: the fallback, when one is set and registered, else raise
ActiveRaises ==
    /\ mgr.op = "complete" /\ mgr.pc = "active" /\ call.pc = "raised"
    /\ LET fallback == get_fallback
           failed == [mgr EXCEPT !.e = call.error,
                         !.events = Append(@, Event("fail", "active", call.kind))]
       IN  IF fallback # NoProvider
           THEN /\ mgr' = [failed EXCEPT !.pc = "fallback",
                              !.events = Append(@, Event("start", "fallback", fallback.kind))]
                /\ call' = NewCall(fallback.kind, fallback.retry_count, 2)
           ELSE /\ mgr' = [failed EXCEPT !.pc = "raised", !.error = call.error]
                /\ UNCHANGED call
    /\ UNCHANGED <<strategyVars, ioVars, mgrVars, strm, yielded>>

\* return await fallback.complete(messages, stream)
FallbackReturns ==
    /\ mgr.op = "complete" /\ mgr.pc = "fallback" /\ call.pc = "returned"
    /\ mgr' = [mgr EXCEPT !.pc = "returned", !.result = call.result,
                          !.events = Append(@, Event("ok", "fallback", call.kind))]
    /\ UNCHANGED <<strategyVars, ioVars, mgrVars, call, strm, yielded>>

\* The exception that leaves the handler when fallback.complete raises inside it:
\* the new exception propagates (the handler's "raise" is not reached).
ReraisesActiveError(e, fallback_error) == e
PropagatedError(e, fallback_error) == fallback_error

FallbackRaisesAndRetries ==
    /\ mgr.op = "complete" /\ mgr.pc = "fallback" /\ call.pc = "raised"
    /\ Len(mgr.events) < 6
    /\ mgr' = [mgr EXCEPT !.events = @ \o <<Event("fail", "fallback", call.kind),
                                            Event("start", "fallback", call.kind)>>]
    /\ call' = NewCall(call.kind, call.retry_count, 2)
    /\ UNCHANGED <<strategyVars, ioVars, mgrVars, strm, yielded>>
FallbackRaises ==
    /\ mgr.op = "complete" /\ mgr.pc = "fallback" /\ call.pc = "raised"
    /\ mgr' = [mgr EXCEPT !.pc = "raised",
                          !.error = PropagatedError(mgr.e, call.error),
                          !.events = Append(@, Event("fail", "fallback", call.kind))]
    /\ UNCHANGED <<strategyVars, ioVars, mgrVars, call, strm, yielded>>

\* The caller has the result, the exception or the end of the stream: the frames
\* of the call are gone.
Resume ==
    /\ mgr.pc \in {"returned", "raised", "ended"}
    /\ mgr' = IdleMgr
    /\ call' = IdleCall
    /\ strm' = IdleStream
    /\ yielded' = <<>>
    /\ UNCHANGED <<strategyVars, ioVars, mgrVars>>

-----------------------------------------------------------------------------
(* Provider.stream_complete: one streamed response, read line by line *)

\* The delta texts a backend streams.
Chunks == {"Hel", "lo"}

\* A line of the response:
\*   delta      "data: " + JSON whose choices[0].delta.content is text ("" when absent)
\*   malformed  "data: " + text that is not JSON
\*   keyless    "data: " + JSON without choices[0].delta
\*   done       "data: [DONE]"
\*   other      a line that does not start with "data: "
Line(kind, text) == [kind |-> kind, text |-> text]
Lines ==
    {Line("delta", t) : t \in Chunks \cup {""}}
    \cup {Line(k, "") : k \in {"malformed", "keyless", "done", "other"}}

NewStream(kind, inv) == [IdleStream EXCEPT !.pc = "open", !.kind = kind, !.inv = inv]

\* The body of "async for line in response.aiter_lines()".
OnLine(f, line) ==
    LET g == [f EXCEPT !.lines = @ + 1] IN
    CASE line.kind = "other" -> g
      [] line.kind = "done" -> [g EXCEPT !.pc = "ended"]
      [] line.kind = "malformed" -> g
      [] line.kind = "keyless" ->
            [g EXCEPT !.pc = "raised", !.error = Error("KeyError", g.inv)]
      [] OTHER ->
            IF line.text # "" THEN [g EXCEPT !.emitted = Append(@, line.text)] ELSE g

\* async for chunk in <provider>.stream_complete(messages): yield chunk
ForwardOnce(seen, chunk) ==
    IF \E i \in 1..Len(seen) : seen[i] = chunk THEN seen ELSE Append(seen, chunk)
Forward(seen, chunk) == Append(seen, chunk)

\* The response delivers a line; a chunk the provider yields reaches the consumer
\* of stream_with_fallback through the manager's own yield.
StreamLine ==
    /\ strm.pc = "open"
    /\ strm.lines < MaxLines
    /\ \E line \in Lines :
          /\ strm' = OnLine(strm, line)
          /\ yielded' = IF Len(strm'.emitted) > Len(strm.emitted)
                        THEN Forward(yielded, line.text)
                        ELSE yielded
    /\ UNCHANGED <<strategyVars, ioVars, mgrVars, mgr, call>>

\* aiter_lines() is exhausted: the response is over without a [DONE].
StreamExhausted ==
    /\ strm.pc = "open"
    /\ strm' = [strm EXCEPT !.pc = "ended"]
    /\ UNCHANGED <<strategyVars, ioVars, mgrVars, mgr, call, yielded>>

\* client.stream or aiter_lines raises: a time-out, a broken connection.
StreamFails ==
    /\ strm.pc = "open"
    /\ strm' = [strm EXCEPT !.pc = "raised",
                            !.error = Error("TimeoutException", strm.inv)]
    /\ UNCHANGED <<strategyVars, ioVars, mgrVars, mgr, call, yielded>>

-----------------------------------------------------------------------------
(* ProviderManager.stream_with_fallback *)

\* The first consumption of the generator, up to the active provider's stream.
stream_with_fallback ==
    /\ mgr.pc = "idle"
    /\ LET active == get_active_provider IN
       IF active = NoProvider
       THEN /\ mgr' = [IdleMgr EXCEPT !.pc = "raised", !.op = "stream",
                                      !.error = ConfigError]
            /\ UNCHANGED strm
       ELSE /\ mgr' = [IdleMgr EXCEPT !.pc = "active", !.op = "stream",
                          !.events = <<Event("start", "active", active.kind)>>]
            /\ strm' = NewStream(active.kind, 1)
    /\ UNCHANGED <<strategyVars, ioVars, mgrVars, call, yielded>>

\* The active provider's stream is over: the generator returns.
ActiveStreamEnds ==
    /\ mgr.op = "stream" /\ mgr.pc = "active" /\ strm.pc = "ended"
    /\ mgr' = [mgr EXCEPT !.pc = "ended", !.first = strm.emitted,
                          !.events = Append(@, Event("ok", "active", strm.kind))]
    /\ UNCHANGED <<strategyVars, ioVars, mgrVars, call, strm, yielded>>

\* except Exception as e: the fallback's stream, when one is set and registered;
\* the handler has no raise, so without a fallback the generator returns.
ActiveStreamRaises ==
    /\ mgr.op = "stream" /\ mgr.pc = "active" /\ strm.pc = "raised"
    /\ LET fallback == get_fallback
           failed == [mgr EXCEPT !.e = strm.error, !.first = strm.emitted,
                         !.events = Append(@, Event("fail", "active", strm.kind))]
       IN  IF fallback # NoProvider
           THEN /\ mgr' = [failed EXCEPT !.pc = "fallback",
                              !.events = Append(@, Event("start", "fallback", fallback.kind))]
                /\ strm' = NewStream(fallback.kind, 2)
           ELSE /\ mgr' = [failed EXCEPT !.pc = "ended"]
                /\ UNCHANGED strm
    /\ UNCHANGED <<strategyVars, ioVars, mgrVars, call, yielded>>

\* The fallback's stream is over: the generator returns.
FallbackStreamEnds ==
    /\ mgr.op = "stream" /\ mgr.pc = "fallback" /\ strm.pc = "ended"
    /\ mgr' = [mgr EXCEPT !.pc = "ended",
                          !.events = Append(@, Event("ok", "fallback", strm.kind))]
    /\ UNCHANGED <<strategyVars, ioVars, mgrVars, call, strm, yielded>>

\* The fallback's stream raises inside the handler: the exception propagates.
FallbackStreamRaises ==
    /\ mgr.op = "stream" /\ mgr.pc = "fallback" /\ strm.pc = "raised"
    /\ mgr' = [mgr EXCEPT !.pc = "raised", !.error = strm.error,
                          !.events = Append(@, Event("fail", "fallback", strm.kind))]
    /\ UNCHANGED <<strategyVars, ioVars, mgrVars, call, strm, yielded>>

-----------------------------------------------------------------------------
(* SpecManager: one manager, reconfigured at any time, serving one call at a time *)

NextManager ==
    \/ \E kind \in ProviderKinds : register_provider(kind)
    \/ \E kind \in ProviderType : set_active_provider(kind)
    \/ \E kind \in ProviderType : set_fallback_provider(kind)
    \/ complete_with_fallback
    \/ Post
    \/ Wake
    \/ ActiveReturns
    \/ ActiveRaises
    \/ FallbackReturns
    \/ FallbackRaises
    \/ stream_with_fallback
    \/ StreamLine
    \/ StreamExhausted
    \/ StreamFails
    \/ ActiveStreamEnds
    \/ ActiveStreamRaises
    \/ FallbackStreamEnds
    \/ FallbackStreamRaises
    \/ Resume

SpecManager == Init /\ [][NextManager]_vars

-----------------------------------------------------------------------------
(* Claims about ProviderManager, checked under SpecManager *)

Starts(events) == {i \in 1..Len(events) : events[i].ev = "start"}

BothFailed ==
    /\ mgr.op = "complete"
    /\ mgr.pc = "raised"
    /\ Len(mgr.events) = 4
    /\ mgr.events[2].ev = "fail" /\ mgr.events[2].role = "active"
    /\ mgr.events[4].ev = "fail" /\ mgr.events[4].role = "fallback"

\* C1: whenever the active provider's complete fails, with whatever exception, and
\* a registered fallback is configured, complete_with_fallback goes on to that
\* provider's complete; when that succeeds the call returns exactly the
\* ChatCompletion the fallback returned and raises nothing.
C1_ReturnsFallbackCompletion ==
    [][/\ (/\ mgr.op = "complete" /\ mgr.pc = "active" /\ call.pc = "raised"
           /\ fallback_provider \in DOMAIN providers
           /\ mgr' # mgr)
          => /\ mgr'.pc = "fallback"
             /\ call'.kind = fallback_provider
             /\ call'.inv = 2
             /\ call'.log = <<>>
       /\ (/\ mgr.op = "complete" /\ mgr.pc = "fallback" /\ call.pc = "returned"
           /\ mgr' # mgr)
          => /\ mgr'.pc = "returned"
             /\ mgr'.result = call.result
             /\ mgr'.error = NoError]_vars

C1_Witness ==
    /\ mgr.op = "complete"
    /\ mgr.pc = "returned"
    /\ mgr.events = <<Event("start", "active", "openai"), Event("fail", "active", "openai"),
                      Event("start", "fallback", "local"), Event("ok", "fallback", "local")>>
    /\ mgr.result = ChatCompletion(" c2 ", "llama3")
    /\ call.inv = 2
    /\ call.result = mgr.result

\* C2, as claimed: when the active provider's complete and the fallback's complete
\* both fail, the error raised to the caller is the active provider's final error.
C2_RaisesActiveError == BothFailed => mgr.error = mgr.e

\* C2, amended: when both fail, the error raised to the caller is the one the
\* fallback provider's complete raised, not the active provider's.
C2_RaisesFallbackError ==
    BothFailed => /\ mgr.error = call.error
                  /\ call.inv = 2
                  /\ mgr.error.inv = 2
                  /\ mgr.e.inv = 1
                  /\ mgr.error # mgr.e

C2_Witness ==
    /\ BothFailed
    /\ mgr.events[2].kind = "anthropic"
    /\ mgr.events[4].kind = "openai"
    /\ mgr.e.exc = "Max retries exceeded"
    /\ mgr.error.exc = "OpenAI API error"

\* C3: with no active provider set, complete_with_fallback, and stream_with_fallback
\* on its first consumption, fail with the configuration error and invoke no
\* provider's complete or stream_complete, even when providers are registered and
\* a fallback is configured.
C3_NoActiveProviderFailsFast ==
    /\ [](mgr.error = ConfigError
            => /\ mgr.pc = "raised"
               /\ mgr.events = <<>>
               /\ call = IdleCall
               /\ strm = IdleStream
               /\ yielded = <<>>)
    /\ [][(mgr.pc = "idle" /\ active_provider = None /\ mgr' # mgr)
            => /\ mgr'.pc = "raised"
               /\ mgr'.error = ConfigError
               /\ mgr'.events = <<>>
               /\ UNCHANGED <<call, strm, yielded>>]_vars

C3_Witness ==
    /\ mgr.op = "stream"
    /\ mgr.pc = "raised"
    /\ mgr.error = ConfigError
    /\ active_provider = None
    /\ fallback_provider = "local"
    /\ DOMAIN providers = ProviderKinds
    /\ call = IdleCall /\ strm = IdleStream

\* C4: within one complete_with_fallback call the provider invocations are strictly
\* sequential: the fallback's complete starts only directly after the active
\* provider's complete has ended in failure, never after it succeeded, and at most
\* once, so that a call makes at most two provider invocations.
C4_SequentialOneLevelFallback ==
    mgr.op = "complete" =>
        LET ev == mgr.events IN
        /\ Cardinality(Starts(ev)) <= 2
        /\ \A i \in Starts(ev) :
              IF ev[i].role = "active"
              THEN i = 1
              ELSE /\ i = 3
                   /\ ev[1] = Event("start", "active", ev[1].kind)
                   /\ ev[2] = Event("fail", "active", ev[1].kind)
        /\ \A i \in 1..Len(ev) :
              (ev[i].ev = "ok" /\ ev[i].role = "active") => i = Len(ev)
        /\ \A i \in 1..Len(ev) :
              (ev[i].ev # "start") => (i > 1 /\ ev[i - 1].ev = "start"
                                       /\ ev[i - 1].role = ev[i].role)
        /\ (mgr.pc = "active" => call.inv = 1 /\ Len(ev) = 1)
        /\ (mgr.pc = "fallback" => call.inv = 2 /\ Len(ev) = 3)

C4_Witness ==
    /\ mgr.op = "complete"
    /\ mgr.pc = "fallback"
    /\ call.pc = "sleep"
    /\ mgr.events = <<Event("start", "active", "local"), Event("fail", "active", "local"),
                      Event("start", "fallback", "anthropic")>>

\* C5: when the active provider's stream has yielded k >= 0 chunks and then fails,
\* and a registered fallback is configured, stream_with_fallback goes on to the
\* fallback's stream from its beginning; the consumer has received exactly the k
\* chunks followed by every chunk of the fallback's stream, in order, none
\* dropped and none deduplicated.
C5_PartialThenFullFallbackStream ==
    /\ [](mgr.op = "stream"
            => yielded = (IF strm.inv = 2 THEN mgr.first \o strm.emitted
                          ELSE strm.emitted))
    /\ [][(/\ mgr.op = "stream" /\ mgr.pc = "active" /\ strm.pc = "raised"
           /\ fallback_provider \in DOMAIN providers
           /\ mgr' # mgr)
            => /\ mgr'.pc = "fallback"
               /\ mgr'.first = strm.emitted
               /\ strm'.pc = "open" /\ strm'.kind = fallback_provider
               /\ strm'.inv = 2 /\ strm'.emitted = <<>> /\ strm'.lines = 0
               /\ yielded' = yielded]_vars

C5_Witness ==
    /\ mgr.op = "stream"
    /\ mgr.pc = "ended"
    /\ strm.inv = 2
    /\ mgr.first = <<"Hel">>
    /\ strm.emitted = <<"Hel", "lo">>
    /\ yielded = <<"Hel", "Hel", "lo">>

\* C6: a failure of the active provider during stream_with_fallback with no usable
\* fallback reaches the consumer as a raised exception or an error value: the
\* stream never ends normally after such a failure.
C6_StreamFailureReachesConsumer ==
    (/\ mgr.op = "stream"
     /\ mgr.e # NoError
     /\ \A i \in 1..Len(mgr.events) : mgr.events[i].role # "fallback")
    => mgr.pc # "ended"

-----------------------------------------------------------------------------
(* StrategyMatcher: detection, the match cache and the user's preferences *)

\* self._cache_size (1000 in the source), scaled to the size of the model.
cache_size == 1

\* The texts the callers classify. LongText is 100 characters long; LongCodeText
\* is LongText followed by a function definition.
TypoText == "teh quick brown fox"
CodeText == "def foo(): pass"
EmailText == "Dear Al :)"
LongText ==
    "1111111111111111111111111111111111111111111111111111111111111111111111111111111111111111111111111111"
LongCodeText ==
    "1111111111111111111111111111111111111111111111111111111111111111111111111111111111111111111111111111 def f"
\* MixedText stands for five CJK ideographs, " React ", one ideograph and
\* " Node.js": a text with both CJK and Latin letters and no code signature.
MixedText == "ZZZZZ React Z Node.js"
Texts == {TypoText, CodeText, EmailText, LongText, LongCodeText, MixedText}

\* The contexts they pass: None, {} and {"app": "chat"}.
EmptyContext == Dict({})
ChatApp == Dict({<<"app", "chat">>})
Contexts == {NoContext, EmptyContext, ChatApp}

\* The calls they make: every text without a context, one text with an empty
\* context and one text with a context that is not empty.
Calls ==
    (Texts \X {NoContext}) \cup {<<LongText, EmptyContext>>, <<TypoText, ChatApp>>}

\* The preferences they pass: None, the defaults, correction switched off,
\* translation and expansion switched off, the user's priority 10 for CUSTOM, and
\* the user's priority 7 for CORRECTION.
DefaultPreferences == UserPreferences(TRUE, TRUE, TRUE, TRUE, NoOverrides)
NoCorrection == UserPreferences(FALSE, TRUE, TRUE, TRUE, NoOverrides)
NoTranslation == UserPreferences(TRUE, FALSE, FALSE, TRUE, NoOverrides)
CustomHigh ==
    UserPreferences(TRUE, TRUE, TRUE, TRUE, [NoOverrides EXCEPT !["custom"] = HIGH])
CorrectionSeven ==
    UserPreferences(TRUE, TRUE, TRUE, TRUE, [NoOverrides EXCEPT !["correction"] = 7])
Preferences ==
    {NoPreferences, DefaultPreferences, NoCorrection, NoTranslation, CustomHigh,
     CorrectionSeven}

\* PatternMatcher: what each detector answers on the texts above. MixedText is
\* in none of the tables: it is not one CJK run, a space and one Latin run (nor the
\* reverse), it has letters of both scripts, it is longer than 10 characters and
\* no acronym starts it.
detect_code(text) == text \in {CodeText, LongCodeText}
detect_typos(text) == text \in {TypoText}
detect_translation_candidate(text) ==
    text \in {TypoText, CodeText, EmailText, LongCodeText}
detect_expansion_candidate(text) == text \in {EmailText}
detect_email_context(text) == text \in {EmailText}
detect_chat_context(text) == text \in {EmailText}

\* @dataclass StrategyMatch; confidence in hundredths, metadata as its one value.
StrategyMatch(strategy_type, confidence, matched_patterns, priority, metadata) ==
    [strategy_type |-> strategy_type, confidence |-> confidence,
     matched_patterns |-> matched_patterns, priority |-> priority,
     metadata |-> metadata]

\* text[:100]
First100(text) == IF text = LongCodeText THEN LongText ELSE text

\* _generate_cache_key: the digest of text[:100], followed by the sorted items of
\* the context when the context is neither None nor empty.
generate_cache_key(text, context) ==
    IF context.given /\ context.items # {}
    THEN <<First100(text), context.items>>
    ELSE <<First100(text)>>

\* The matches the detectors produce on a cache miss, in the order appended.
When(condition, match) == IF condition THEN <<match>> ELSE <<>>

detect_matches(text, preferences) ==
    IF detect_code(text)
    THEN <<StrategyMatch("custom", 99, <<"code_detected">>, CRITICAL, "protect_code")>>
    ELSE When(detect_typos(text),
              StrategyMatch("correction", 95, <<"typo_detected">>, HIGH, ""))
         \o When(/\ detect_translation_candidate(text)
                 /\ preferences.given /\ preferences.translation_enabled,
              StrategyMatch("translation", 85, <<"translation_candidate">>, MEDIUM,
                            "en-zh"))  \* the direction of an English-only text
         \o When(/\ detect_expansion_candidate(text)
                 /\ preferences.given /\ preferences.expansion_enabled,
              StrategyMatch("expansion", 75, <<"short_text", "expansion_candidate">>,
                            MEDIUM, ""))
         \o When(detect_email_context(text),
              StrategyMatch("custom", 80, <<"email_context">>, LOW, "formal_tone"))
         \o When(detect_chat_context(text),
              StrategyMatch("custom", 80, <<"chat_context">>, LOW, "casual_tone"))

\* matches.sort(key=lambda m: (m.priority.value, m.confidence), reverse=True):
\* a stable sort, equal keys keep the order they had.
KeyGreater(a, b) ==
    \/ a.priority > b.priority
    \/ a.priority = b.priority /\ a.confidence > b.confidence
KeyLess(a, b) ==
    \/ a.priority < b.priority
    \/ a.priority = b.priority /\ a.confidence < b.confidence

RECURSIVE InsertByKey(_, _)
InsertByKey(sorted, match) ==
    IF sorted = <<>> THEN <<match>>
    ELSE IF KeyLess(Head(sorted), match) THEN <<match>> \o sorted
    ELSE <<Head(sorted)>> \o InsertByKey(Tail(sorted), match)

RECURSIVE sort(_)
sort(matches) ==
    IF matches = <<>> THEN <<>>
    ELSE InsertByKey(sort(SubSeq(matches, 1, Len(matches) - 1)), matches[Len(matches)])

\* The four "if ... and not preferences.<kind>_enabled: continue" of _apply_preferences.
Disabled(strategy_type, preferences) ==
    \/ strategy_type = "correction" /\ ~preferences.correction_enabled
    \/ strategy_type = "expansion" /\ ~preferences.expansion_enabled
    \/ strategy_type = "translation" /\ ~preferences.translation_enabled
    \/ strategy_type = "summarization" /\ ~preferences.summarization_enabled

\* _apply_preferences, match by match. acc.result is the list being built,
\* acc.objects the StrategyMatch objects of the cached list as the loop leaves
\* them (match.priority is assigned in place), acc.raised the ValueError of
\* StrategyPriority(priority_override) on an integer that is no member.
RECURSIVE apply_preferences(_, _, _)
apply_preferences(matches, preferences, acc) ==
    IF matches = <<>> THEN acc
    ELSE LET match == Head(matches)
             priority_override == preferences.strategy_priorities[match.strategy_type]
         IN  IF Disabled(match.strategy_type, preferences)
             THEN apply_preferences(Tail(matches), preferences,
                                    [acc EXCEPT !.objects = Append(@, match)])
             ELSE IF priority_override = 0
             THEN apply_preferences(Tail(matches), preferences,
                                    [acc EXCEPT !.objects = Append(@, match),
                                                !.result = Append(@, match)])
             ELSE IF priority_override \notin StrategyPriority
             THEN [acc EXCEPT !.objects = @ \o matches, !.raised = "ValueError"]
             ELSE LET overridden == [match EXCEPT !.priority = priority_override]
                  IN  apply_preferences(Tail(matches), preferences,
                                        [acc EXCEPT !.objects = Append(@, overridden),
                                                    !.result = Append(@, overridden)])

ApplyPreferences(matches, preferences) ==
    apply_preferences(matches, preferences,
                      [result |-> <<>>, objects |-> <<>>, raised |-> None])

\* The cache as a dict: its keys in insertion order, the entry under a key.
CacheKeys == [i \in 1..Len(cache) |-> cache[i].key]
KeysOf(entries) == {entries[i].key : i \in 1..Len(entries)}
InCache(cache_key) == \E i \in 1..Len(cache) : cache[i].key = cache_key
IndexOf(cache_key) == CHOOSE i \in 1..Len(cache) : cache[i].key = cache_key

\* oldest_key = next(iter(self._match_cache)); del self._match_cache[oldest_key]
EvictNewest(entries) == SubSeq(entries, 1, Len(entries) - 1)
EvictOldest(entries) == Tail(entries)

\* _finalize_matches after the sort: evict if the cache is over its size, then
\* store a copy of the list under the key.
Store(entries, cache_key, matches) ==
    Append(IF Len(entries) > cache_size THEN EvictOldest(entries) ELSE entries,
           [key |-> cache_key, matches |-> matches])

\* match_strategies(text, context, preferences)
match_strategies(text, context, preferences) ==
    LET cache_key == generate_cache_key(text, context)
        repeated == /\ last.text = text
                    /\ last.context = context
                    /\ last.preferences = preferences
                    /\ last.raised = None
        this == [text |-> text, context |-> context, preferences |-> preferences,
                 hit |-> InCache(cache_key), raised |-> None, result |-> <<>>,
                 evicted |-> {}, repeated |-> repeated, before |-> <<>>]
    IN  /\ IF InCache(cache_key)
           THEN LET i == IndexOf(cache_key)
                    matches == cache[i].matches
                    applied == ApplyPreferences(matches, preferences)
                IN  IF preferences.given
                    THEN /\ cache' = [cache EXCEPT ![i].matches = applied.objects]
                         /\ last' =
                              IF applied.raised # None
                              THEN [this EXCEPT !.raised = applied.raised,
                                                !.repeated = FALSE]
                              ELSE [this EXCEPT
                                      !.result = applied.result,
                                      !.before = IF ~repeated THEN <<>>
                                                 ELSE IF last.hit THEN applied.result
                                                 ELSE applied.objects]
                    ELSE /\ cache' = cache
                         /\ last' = [this EXCEPT
                                       !.result = matches,
                                       !.before = IF repeated THEN last.result ELSE <<>>]
           ELSE LET matches == sort(detect_matches(text, preferences))
                    stored == Store(cache, cache_key, matches)
                IN  /\ cache' = stored
                    /\ last' = [this EXCEPT
                                  !.result = matches,
                                  !.evicted = KeysOf(cache) \ KeysOf(stored),
                                  !.before = IF repeated THEN last.result ELSE <<>>]
        /\ UNCHANGED <<mgrVars, ioVars, engineVars, mgr, call, strm, yielded, deps, chain>>

\* A caller classifies a text.
MatchStrategies ==
    \E c \in Calls : \E preferences \in Preferences :
        match_strategies(c[1], c[2], preferences)

NextMatcher == MatchStrategies

SpecMatcher == Init /\ [][NextMatcher]_vars

-----------------------------------------------------------------------------
(* Claims about StrategyMatcher, checked under SpecMatcher *)

Called == last.text # None
Returned == Called /\ last.raised = None
Sorted(matches) ==
    \A i \in 1..Len(matches) : \A j \in 1..Len(matches) :
        i < j => ~KeyLess(matches[i], matches[j])

\* What a cache miss returns for a text under given preferences.
MissResult(text, preferences) == sort(detect_matches(text, preferences))

\* C12: whenever the text holds a code signature, match_strategies returns exactly
\* one match, the protect-code match (kind CUSTOM, action protect_code, priority
\* CRITICAL), whatever the context, the preferences and the calls made before.
C12_CodeIsAlwaysProtected ==
    (Called /\ detect_code(last.text))
    => /\ last.raised = None
       /\ Len(last.result) = 1
       /\ last.result[1].strategy_type = "custom"
       /\ last.result[1].metadata = "protect_code"
       /\ last.result[1].priority = CRITICAL

\* C13: a call that repeats the text, context and preferences of the call before
\* it returns the same matches in the same order (kinds, confidences, priorities),
\* also when the first of the two was a cache miss and the second a hit.
C13_RepeatedCallReturnsSameResult ==
    (Returned /\ last.repeated) => last.result = last.before

\* C14: the cache never holds more entries than its fixed capacity.
C14_CacheWithinCapacity == Len(cache) <= cache_size

C16_CacheIsPreferenceIndependent ==
    /\ (Called /\ ~last.hit)
       => \A preferences \in Preferences :
             cache[Len(cache)].matches = MissResult(last.text, preferences)
    /\ (Returned /\ last.hit)
       => last.result = MissResult(last.text, last.preferences)

\* C17: no returned match is of a kind (CORRECTION, EXPANSION, TRANSLATION) that
\* the preferences of the call disable, on a cache miss and on a cache hit.
C17_NoDisabledKindReturned ==
    (Returned /\ last.preferences.given)
    => \A i \in 1..Len(last.result) :
          ~Disabled(last.result[i].strategy_type, last.preferences)

\* C18: every returned list is in (priority descending, confidence descending)
\* order of the priorities its matches carry, on misses and on hits, priority
\* overrides included.
C18_ResultIsSorted == Returned => Sorted(last.result)

-----------------------------------------------------------------------------
(* StrategyChain: declared dependencies and build_chain *)

\* The largest number of add_dependency calls made on one chain.
MaxDeps == 3

\* The largest number of matches handed to build_chain.
MaxMatches == 2

\* The kinds the callers declare dependencies for and hand in as matches, and
\* the matches they hand in: build_chain reads strategy_type and priority only.
ChainKinds == {"correction", "expansion", "translation"}
ChainMatches ==
    {StrategyMatch(kind, 80, <<>>, priority, "") :
        kind \in ChainKinds, priority \in {MEDIUM, HIGH}}
MatchLists == UNION {[1..n -> ChainMatches] : n \in 0..MaxMatches}

\* The number of dependencies declared so far.
RECURSIVE SumLen(_, _)
SumLen(f, S) ==
    IF S = {} THEN 0
    ELSE LET x == CHOOSE y \in S : TRUE IN Len(f[x]) + SumLen(f, S \ {x})
Declared == SumLen(deps, StrategyType)

\* self._dependencies[strategy].append(depends_on)
add_dependency(strategy, depends_on) ==
    /\ chain.pc = "idle"
    /\ Declared < MaxDeps
    /\ deps' = [deps EXCEPT ![strategy] = Append(@, depends_on)]
    /\ UNCHANGED <<mgrVars, ioVars, engineVars, mgr, call, strm, yielded, cache, last, chain>>

\* sorted(matches, key=lambda m: m.priority.value, reverse=True): a stable sort.
AppendUnsorted(sorted, match) == Append(sorted, match)
RECURSIVE InsertByPriority(_, _)
InsertByPriority(sorted, match) ==
    IF sorted = <<>> THEN <<match>>
    ELSE IF Head(sorted).priority < match.priority THEN <<match>> \o sorted
    ELSE <<Head(sorted)>> \o InsertByPriority(Tail(sorted), match)

RECURSIVE sorted_by_priority(_)
sorted_by_priority(matches) ==
    IF matches = <<>> THEN <<>>
    ELSE InsertByPriority(sorted_by_priority(SubSeq(matches, 1, Len(matches) - 1)),
                          matches[Len(matches)])

\* chain.append(kind); processed.add(kind). The model notes with each element of
\* the chain whether it was appended as a dependency or as the kind of a match.
EmitInFront(acc, kind, role) ==
    [chain |-> <<[strategy_type |-> kind, role |-> role]>> \o acc.chain,
     processed |-> acc.processed \cup {kind}]
Emit(acc, kind, role) ==
    [chain |-> Append(acc.chain, [strategy_type |-> kind, role |-> role]),
     processed |-> acc.processed \cup {kind}]

\* for dep in deps: if dep not in processed: ...
NoDependenciesEmitted(acc, declared) == acc
RECURSIVE EmitDependencies(_, _)
EmitDependencies(acc, declared) ==
    IF declared = <<>> THEN acc
    ELSE EmitDependencies(IF Head(declared) \notin acc.processed
                          THEN Emit(acc, Head(declared), "dependency")
                          ELSE acc,
                          Tail(declared))

\* for match in sorted(...): if match.strategy_type in processed: continue ...
RECURSIVE Visit(_, _)
Visit(acc, matches) ==
    IF matches = <<>> THEN acc
    ELSE LET kind == Head(matches).strategy_type
         IN  IF kind \in acc.processed
             THEN Visit(acc, Tail(matches))
             ELSE Visit(Emit(EmitDependencies(acc, deps[kind]), kind, "match"),
                        Tail(matches))

\* build_chain(matches)
build_chain(matches) ==
    IF matches = <<>> THEN <<>>
    ELSE Visit([chain |-> <<>>, processed |-> {}], sorted_by_priority(matches)).chain

AddDependency ==
    \E strategy \in ChainKinds : \E depends_on \in ChainKinds :
        add_dependency(strategy, depends_on)

BuildChain ==
    /\ chain.pc = "idle"
    /\ \E matches \in MatchLists :
          chain' = [pc |-> "returned", matches |-> matches,
                    result |-> build_chain(matches)]
    /\ UNCHANGED <<mgrVars, ioVars, engineVars, mgr, call, strm, yielded, cache, last, deps>>

\* The caller has the chain; the frame is gone.
ChainDone ==
    /\ chain.pc = "returned"
    /\ chain' = IdleChain
    /\ UNCHANGED <<mgrVars, ioVars, engineVars, mgr, call, strm, yielded, cache, last, deps>>

NextChain == AddDependency \/ BuildChain \/ ChainDone

SpecChain == Init /\ [][NextChain]_vars

-----------------------------------------------------------------------------
(* Claims about StrategyChain.build_chain, checked under SpecChain *)

\* The list build_chain returns.
Output == [i \in 1..Len(chain.result) |-> chain.result[i].strategy_type]
DependenciesOf(kind) == {deps[kind][i] : i \in 1..Len(deps[kind])}
Earlier(kind, i) == \E j \in 1..(i - 1) : Output[j] = kind

\* C19: build_chain never emits a kind more than once, also when the matches hold
\* a kind twice, a dependency is declared twice or a kind depends on itself.
C19_NoKindEmittedTwice ==
    chain.pc = "returned"
    => \A i \in 1..Len(Output) : \A j \in 1..Len(Output) :
          i # j => Output[i] # Output[j]

\* C20 (as stated): every declared dependency of every emitted kind, emitted as a
\* match or as a dependency of another kind, appears strictly earlier in the
\* output than the kind that depends on it.
C20_DependenciesOfEveryEmittedKindEarlier ==
    chain.pc = "returned"
    => \A i \in 1..Len(Output) :
          \A kind \in DependenciesOf(Output[i]) : Earlier(kind, i)

\* C20 (amended): every declared dependency of a kind that build_chain emits as
\* the kind of a match appears in the output earlier than that emission; the
\* declared dependencies of a kind emitted only as a dependency of another kind
\* are not looked at.
C20_DependenciesOfMatchedKindEarlier ==
    chain.pc = "returned"
    => \A i \in 1..Len(Output) :
          chain.result[i].role = "match"
          => \A kind \in DependenciesOf(Output[i]) : Earlier(kind, i)

C20_Witness ==
    /\ chain.pc = "returned"
    /\ deps = [NoDependencies EXCEPT !["correction"] = <<"expansion">>,
                                     !["expansion"] = <<"translation">>]
    /\ Len(chain.matches) = 1
    /\ chain.matches[1].strategy_type = "correction"
    /\ Output = <<"expansion", "correction">>

\* Two different kinds that are declared to depend on each other.
Cycle(a, b) == a # b /\ b \in DependenciesOf(a) /\ a \in DependenciesOf(b)

\* C21 (as stated): build_chain returns for a dependency map with a declared
\* cycle, and one of the two kinds of the cycle does not appear in the output.
C21_OneKindOfCycleSkipped ==
    chain.pc = "returned"
    => \A a \in ChainKinds : \A b \in ChainKinds :
          Cycle(a, b)
          => (\A i \in 1..Len(Output) : Output[i] # a)
             \/ (\A i \in 1..Len(Output) : Output[i] # b)

\* C21 (amended): build_chain returns for a dependency map with a declared
\* cycle, and no kind is skipped for the cycle: when a kind of the cycle is
\* emitted as the kind of a match, the other kind of the cycle is in the output
\* too, earlier; what is not honoured is the other kind's dependency on it.
C21_CycleEmitsBothKinds ==
    chain.pc = "returned"
    => \A a \in ChainKinds : \A b \in ChainKinds :
          Cycle(a, b)
          => \A i \in 1..Len(Output) :
                (Output[i] = a /\ chain.result[i].role = "match")
                => Earlier(b, i)

C21_Witness ==
    /\ chain.pc = "returned"
    /\ deps = [NoDependencies EXCEPT !["correction"] = <<"expansion">>,
                                     !["expansion"] = <<"correction">>]
    /\ Len(chain.matches) = 1
    /\ chain.matches[1].strategy_type = "correction"
    /\ chain.result = <<[strategy_type |-> "expansion", role |-> "dependency"],
                        [strategy_type |-> "correction", role |-> "match"]>>

-----------------------------------------------------------------------------
(* StrategyChain.execute_chain: the chain applied to a text, step by step *)

\* The longest chain handed to execute_chain.
MaxChain == 3

\* The chains handed in: build_chain can return a kind twice.
Chains == UNION {[1..n -> ChainKinds] : n \in 0..MaxChain}

\* A text is written as the text handed to execute_chain followed by the kinds
\* whose transforms were applied to it, in order: processor(text, kind) returns
\* the text with one more kind applied.
Input(text) == <<text>>
processor(text, strategy_type) == Append(text, strategy_type)

\* except Exception as e: logger.error(...), with no assignment to result.
RestartFromInput(result, text) == text
AfterException(result, text) == result

\* result = text, before the loop
execute_chain(text, steps) ==
    /\ exec.pc = "idle"
    /\ exec' = [IdleExec EXCEPT !.pc = "running", !.text = text, !.chain = steps,
                                !.result = text]
    /\ UNCHANGED <<mgrVars, ioVars, mgr, call, strm, yielded, cache, last, deps,
                   chain, engine, threads>>

Invocation(text, strategy_type, raised) ==
    [text |-> text, strategy_type |-> strategy_type, raised |-> raised]

\* try: result = processor(result, strategy_type), and the call returns
ProcessorReturns ==
    /\ exec.pc = "running"
    /\ exec.i < Len(exec.chain)
    /\ LET strategy_type == exec.chain[exec.i + 1] IN
       exec' = [exec EXCEPT !.i = @ + 1,
                   !.result = processor(exec.result, strategy_type),
                   !.log = Append(@, Invocation(exec.result, strategy_type, FALSE))]
    /\ UNCHANGED <<mgrVars, ioVars, mgr, call, strm, yielded, cache, last, deps,
                   chain, engine, threads>>

\* try: result = processor(result, strategy_type), and the call raises an Exception
ProcessorRaises ==
    /\ exec.pc = "running"
    /\ exec.i < Len(exec.chain)
    /\ LET strategy_type == exec.chain[exec.i + 1] IN
       exec' = [exec EXCEPT !.i = @ + 1,
                   !.result = AfterException(exec.result, exec.text),
                   !.log = Append(@, Invocation(exec.result, strategy_type, TRUE))]
    /\ UNCHANGED <<mgrVars, ioVars, mgr, call, strm, yielded, cache, last, deps,
                   chain, engine, threads>>

\* return result, after the loop
ExecuteReturns ==
    /\ exec.pc = "running"
    /\ exec.i = Len(exec.chain)
    /\ exec' = [exec EXCEPT !.pc = "returned", !.returned = exec.result]
    /\ UNCHANGED <<mgrVars, ioVars, mgr, call, strm, yielded, cache, last, deps,
                   chain, engine, threads>>

\* The caller has the text; the frame is gone.
ExecuteDone ==
    /\ exec.pc = "returned"
    /\ exec' = IdleExec
    /\ UNCHANGED <<mgrVars, ioVars, mgr, call, strm, yielded, cache, last, deps,
                   chain, engine, threads>>

ExecuteChain ==
    \E text \in {TypoText, CodeText} : \E steps \in Chains :
        execute_chain(Input(text), steps)

NextExecute ==
    ExecuteChain \/ ProcessorReturns \/ ProcessorRaises \/ ExecuteReturns \/ ExecuteDone

SpecExecute == Init /\ [][NextExecute]_vars

-----------------------------------------------------------------------------
(* Claims about StrategyChain.execute_chain, checked under SpecExecute *)

\* The text after the first n steps of a chain, given which of them raised: the
\* fold of the transforms that returned over the text handed in.
RECURSIVE FoldSuccessful(_, _, _, _)
FoldSuccessful(text, steps, raised, n) ==
    IF n = 0 THEN text
    ELSE LET before == FoldSuccessful(text, steps, raised, n - 1)
         IN  IF raised[n] THEN before ELSE before \o <<steps[n]>>

\* C22: execute_chain invokes the transform once per element of the chain, in
\* chain order, each time on the running text; a step that raises leaves the
\* running text as it was and the later steps still run; the call returns, and
\* what it returns is the fold of the transforms that returned over the input.
C22_ExecuteChainFoldsSuccessfulSteps ==
    LET raised == [n \in 1..Len(exec.log) |-> exec.log[n].raised] IN
    /\ exec.pc \in {"idle", "running", "returned"}
    /\ Len(exec.log) = exec.i
    /\ \A n \in 1..Len(exec.log) :
          /\ exec.log[n].strategy_type = exec.chain[n]
          /\ exec.log[n].text = FoldSuccessful(exec.text, exec.chain, raised, n - 1)
    /\ exec.pc = "returned"
       => /\ Len(exec.log) = Len(exec.chain)
          /\ exec.returned = FoldSuccessful(exec.text, exec.chain, raised, Len(exec.chain))

\* The first and the third step return, the second raises.
C22_Witness ==
    /\ exec.pc = "returned"
    /\ exec.chain = <<"correction", "expansion", "translation">>
    /\ exec.text = Input(TypoText)
    /\ exec.log[2].raised
    /\ exec.returned = <<TypoText, "correction", "translation">>

-----------------------------------------------------------------------------
(* Claims about the configuration of ProviderManager, checked under SpecManager *)

\* C23: set_active_provider and set_fallback_provider called with a kind that is
\* not registered raise the configuration error and leave the registry, the
\* active kind and the fallback kind as they were; so the active kind and the
\* fallback kind, once set, are registered kinds after every sequence of
\* register_provider, set_active_provider and set_fallback_provider calls.
C23_SettersRejectUnregisteredKinds ==
    /\ [](/\ active_provider # None => active_provider \in DOMAIN providers
          /\ fallback_provider # None => fallback_provider \in DOMAIN providers)
    /\ [][\A kind \in ProviderType :
            (/\ kind \notin DOMAIN providers
             /\ set_active_provider(kind) \/ set_fallback_provider(kind))
            => /\ cfg' = NotRegistered
               /\ UNCHANGED mgrVars]_vars

\* A setter has just rejected a kind while an active kind is set.
C23_Witness ==
    /\ cfg = NotRegistered
    /\ DOMAIN providers = {"openai"}
    /\ active_provider = "openai"
    /\ fallback_provider = None

-----------------------------------------------------------------------------
(* SpecStream: a consumer reads Provider.stream_complete over one response *)

\* The largest number of lines of a streamed response.
MaxResponse == 3

Responses == UNION {[1..n -> Lines] : n \in 0..MaxResponse}

\* async with client.stream(...) as response: the response is there to be read.
stream_complete(kind, response) ==
    /\ strm.pc = "idle"
    /\ strm' = NewStream(kind, 1)
    /\ resp' = response
    /\ UNCHANGED <<strategyVars, mgrVars, proc, probe, cfg, mgr, call, yielded>>

\* async for line in response.aiter_lines(): the next line of the response
ReadLine ==
    /\ strm.pc = "open"
    /\ strm.lines < Len(resp)
    /\ strm' = OnLine(strm, resp[strm.lines + 1])
    /\ UNCHANGED <<strategyVars, ioVars, mgrVars, mgr, call, yielded>>

\* aiter_lines() is exhausted: the loop and the generator end.
EndOfResponse ==
    /\ strm.pc = "open"
    /\ strm.lines = Len(resp)
    /\ strm' = [strm EXCEPT !.pc = "ended"]
    /\ UNCHANGED <<strategyVars, ioVars, mgrVars, mgr, call, yielded>>

\* The consumer has seen the end of the generator; the frame is gone.
StreamClosed ==
    /\ strm.pc \in {"ended", "raised"}
    /\ strm' = IdleStream
    /\ resp' = <<>>
    /\ UNCHANGED <<strategyVars, mgrVars, proc, probe, cfg, mgr, call, yielded>>

StreamComplete ==
    \E kind \in ProviderKinds : \E response \in Responses :
        stream_complete(kind, response)

NextStream == StreamComplete \/ ReadLine \/ EndOfResponse \/ StreamFails \/ StreamClosed

SpecStream == Init /\ [][NextStream]_vars

-----------------------------------------------------------------------------
(* Claims about Provider.stream_complete, checked under SpecStream *)

\* The non-empty delta texts of the data lines before the first [DONE].
RECURSIVE DeltasBeforeDone(_)
DeltasBeforeDone(lines) ==
    IF lines = <<>> \/ Head(lines).kind = "done" THEN <<>>
    ELSE (IF Head(lines).kind = "delta" /\ Head(lines).text # ""
          THEN <<Head(lines).text>> ELSE <<>>)
         \o DeltasBeforeDone(Tail(lines))

\* C24: unless the connection fails, stream_complete yields exactly the non-empty
\* delta texts of the data lines that precede the first [DONE], in arrival
\* order, and then ends; empty deltas, lines that are not data lines and data
\* lines that cannot be used yield nothing and do not end the stream.
C24_YieldsDeltasBeforeDone ==
    /\ strm.pc = "ended" => strm.emitted = DeltasBeforeDone(resp)
    /\ strm.pc = "raised" => strm.error.exc = "TimeoutException"

-----------------------------------------------------------------------------
(* StrategyEngine: preferences and learn_from_feedback *)

\* learned_preferences holds floats that move in steps of 0.1; the model counts
\* them in tenths: 0.5 is 5, 0.1 is 1, 1.0 is 10, 0.0 is 0.
Half == 5
Step == 1
One == 10
Zero == 0

\* min(1.0, v) and max(0.0, v)
Unclamped(a, b) == b
min(a, b) == IF a < b THEN a ELSE b
max(a, b) == IF a > b THEN a ELSE b

\* text[:50]: of the texts above only the long ones are cut, to fifty 1s.
FiftyOnes == "11111111111111111111111111111111111111111111111111"
First50(text) == IF text \in {LongText, LongCodeText} THEN FiftyOnes ELSE text

\* key = f"{text[:50]}_{strategy.value}"
FeedbackKey(text, strategy) == <<First50(text), strategy>>

\* learned_preferences.get(key, 0.5)
get(learned, key, default) == IF key \in DOMAIN learned THEN learned[key] ELSE default

\* learned_preferences[key] = value
Put(learned, key, value) ==
    [k \in DOMAIN learned \cup {key} |-> IF k = key THEN value ELSE learned[k]]

\* self._preferences = preferences: an object as UserPreferences(...) builds it,
\* its learned_preferences empty.
set_preferences(preferences) ==
    /\ engine' = [engine EXCEPT !.preferences = preferences, !.learned = <<>>]
    /\ UNCHANGED <<mgrVars, ioVars, mgr, call, strm, yielded, cache, last, deps,
                   chain, exec, threads>>

\* return self._preferences or self._default_preferences
get_preferences ==
    IF engine.preferences.given THEN engine.preferences ELSE DefaultPreferences

\* learn_from_feedback(text, strategy, accepted); feedback notes the call.
learn_from_feedback(text, strategy, accepted) ==
    LET key == FeedbackKey(text, strategy)
        current == get(engine.learned, key, Half)
        noted == [key |-> key, accepted |-> accepted, before |-> engine.learned,
                  calls |-> 1 - engine.feedback.calls]
    IN  /\ engine' =
              IF engine.preferences.given
              THEN [engine EXCEPT
                      !.learned = Put(@, key, IF accepted
                                              THEN min(One, current + Step)
                                              ELSE max(Zero, current - Step)),
                      !.feedback = noted]
              ELSE [engine EXCEPT !.feedback = noted]
        /\ UNCHANGED <<mgrVars, ioVars, mgr, call, strm, yielded, cache, last, deps,
                       chain, exec, threads>>

\* The feedback the callers give: the two long texts share their first 50
\* characters, hence a key.
Feedbacks ==
    {<<TypoText, "correction">>, <<LongText, "translation">>,
     <<LongCodeText, "translation">>}

SetPreferences ==
    \E preferences \in Preferences \ {NoPreferences} : set_preferences(preferences)

LearnFromFeedback ==
    \E f \in Feedbacks : \E accepted \in BOOLEAN :
        learn_from_feedback(f[1], f[2], accepted)

NextFeedback == SetPreferences \/ LearnFromFeedback

SpecFeedback == Init /\ [][NextFeedback]_vars

-----------------------------------------------------------------------------
(* Claims about StrategyEngine.learn_from_feedback, checked under SpecFeedback *)

\* A step that is a learn_from_feedback call.
FeedbackStep == engine'.feedback.calls # engine.feedback.calls

\* The call moved the value of its key, and nothing else, one step up or down
\* from the value before (0.5 when absent), clamped to [0, 1].
MovedOneKey ==
    LET key == engine'.feedback.key
        before == IF key \in DOMAIN engine.learned THEN engine.learned[key] ELSE Half
        moved == IF engine'.feedback.accepted THEN before + Step ELSE before - Step
        clamped == IF moved > One THEN One ELSE IF moved < Zero THEN Zero ELSE moved
    IN  /\ DOMAIN engine'.learned = DOMAIN engine.learned \cup {key}
        /\ engine'.learned[key] = clamped
        /\ \A k \in DOMAIN engine.learned : k # key => engine'.learned[k] = engine.learned[k]

LearnedInRange ==
    \A k \in DOMAIN engine.learned : Zero <= engine.learned[k] /\ engine.learned[k] <= One

-----------------------------------------------------------------------------
(* Further claims about StrategyMatcher, checked under SpecMatcher *)

\* C26: match_strategies has no failure mode: for every text, context and
\* preferences, integer priority overrides included, and for every state of the
\* cache it returns a list and raises nothing.
C26_MatchStrategiesNeverRaises == Called => last.raised = None

-----------------------------------------------------------------------------
(* SpecEngine: StrategyEngine.match and select_strategy on one engine *)

\* return self.matcher.match_strategies(text, context, self.get_preferences())
match(text, context) == match_strategies(text, context, get_preferences)

\* matches = self.match_strategies(text, context), in get_best_strategy
get_best_strategy(text, context) == match_strategies(text, context, NoPreferences)

\* return self.matcher.get_best_strategy(text, context)
select_strategy(text, context) == get_best_strategy(text, context)

\* return matches[0] if matches else None: the list of the match returned, empty
\* for None.
Best(matches) == IF matches = <<>> THEN <<>> ELSE <<matches[1]>>

Match == \E c \in Calls : match(c[1], c[2])

SelectStrategy == \E c \in Calls : select_strategy(c[1], c[2])

NextEngine == SetPreferences \/ Match \/ SelectStrategy

SpecEngine == Init /\ [][NextEngine]_vars

-----------------------------------------------------------------------------
(* Claims about StrategyEngine.select_strategy, checked under SpecEngine *)

\* What match_strategies(text, context, preferences) gives when called in the
\* current state: the exception it raises, if any, and the list it returns.
Outcome(text, context, preferences) ==
    LET cache_key == generate_cache_key(text, context) IN
    IF ~InCache(cache_key)
    THEN [raised |-> None, result |-> MissResult(text, preferences)]
    ELSE IF ~preferences.given
    THEN [raised |-> None, result |-> cache[IndexOf(cache_key)].matches]
    ELSE LET applied == ApplyPreferences(cache[IndexOf(cache_key)].matches, preferences)
         IN  [raised |-> applied.raised,
              result |-> IF applied.raised = None THEN applied.result ELSE <<>>]

\* A step that is a select_strategy call: the one caller of match_strategies
\* that passes no preferences.
SelectStep == last' # last /\ ~last'.preferences.given

\* C27: in every state of the engine, for every text and context,
\* select_strategy(text, context) returns the first element of what
\* match(text, context) returns in that state, and None exactly when that list is
\* empty.
C27_SelectIsHeadOfMatch ==
    [][SelectStep =>
         LET matched == Outcome(last'.text, last'.context, get_preferences)
         IN  /\ matched.raised = None
             /\ Best(last'.result) = Best(matched.result)]_vars

-----------------------------------------------------------------------------
(* TextProcessor: correct, expand, translate and summarize *)

\* The four operations; they differ in their prompt, their processing_type,
\* the confidence of a success and the wording of the failure placeholder.
Operations == {"correct", "expand", "translate", "summarize"}

\* confidence=0.9 (correct, translate) and 0.85 (expand, summarize), in hundredths
Confidence(op) == IF op \in {"correct", "translate"} THEN 90 ELSE 85

\* result.content.strip()
strip(content) == IF content = " c2 " THEN "c2" ELSE content

\* processed_text: the stripped content of a completion, the placeholder that asks
\* for a provider to be configured, or the placeholder of a failure, which
\* carries str(e).
Content(content) == <<"content", strip(content)>>
NotConfigured == <<"not configured">>
Failure(op, e) == <<"failed", op, e.exc>>

\* ProcessingResult(original_text=text, processed_text=..., confidence=...)
ProcessingResult(f, processed_text, confidence) ==
    [f EXCEPT !.pc = "returned", !.original_text = f.text,
              !.processed_text = processed_text, !.confidence = confidence]

\* The texts the operations are called with.
ProcessorTexts == {TypoText, MixedText}

\* except Exception as e: every exception provider.complete raises is one.
CatchesRetryErrorOnly(e) == e.exc = "Max retries exceeded"
CatchesException(e) == TRUE

\* provider = self.provider_manager.get_active_provider(); if not provider:
\* return the placeholder; else: await provider.complete(messages)
Transform(op, text) ==
    /\ proc.pc = "idle"
    /\ call.pc = "idle"
    /\ LET provider == get_active_provider
           f == [IdleProc EXCEPT !.op = op, !.text = text]
       IN
       IF provider = NoProvider
       THEN /\ proc' = ProcessingResult(f, NotConfigured, 0)
            /\ UNCHANGED call
       ELSE /\ proc' = [f EXCEPT !.pc = "awaiting"]
            /\ call' = NewCall(provider.kind, provider.retry_count, 1)
    /\ UNCHANGED <<strategyVars, mgrVars, resp, probe, cfg, mgr, strm, yielded>>

\* result = await provider.complete(messages) returns
CompletionReturns ==
    /\ proc.pc = "awaiting"
    /\ call.pc = "returned"
    /\ proc' = ProcessingResult(proc, Content(call.result.content), Confidence(proc.op))
    /\ UNCHANGED <<strategyVars, mgrVars, resp, probe, cfg, mgr, call, strm, yielded>>

\* except Exception as e: the failure placeholder. The model notes e and the
\* fallback the manager has configured at this moment.
CompletionRaises ==
    /\ proc.pc = "awaiting"
    /\ call.pc = "raised"
    /\ proc' = IF CatchesException(call.error)
               THEN ProcessingResult([proc EXCEPT !.e = call.error,
                                                  !.fallback = get_fallback.kind],
                                     Failure(proc.op, call.error), 0)
               ELSE [proc EXCEPT !.pc = "raised", !.raised = call.error.exc]
    /\ UNCHANGED <<strategyVars, mgrVars, resp, probe, cfg, mgr, call, strm, yielded>>

\* The caller has the ProcessingResult; the frames are gone.
TransformDone ==
    /\ proc.pc \in {"returned", "raised"}
    /\ proc' = IdleProc
    /\ call' = IdleCall
    /\ UNCHANGED <<strategyVars, mgrVars, resp, probe, cfg, mgr, strm, yielded>>

NextProcessor ==
    \/ \E kind \in ProviderKinds : register_provider(kind)
    \/ \E kind \in ProviderType : set_active_provider(kind)
    \/ \E kind \in ProviderType : set_fallback_provider(kind)
    \/ \E op \in Operations : \E text \in ProcessorTexts : Transform(op, text)
    \/ Post
    \/ Wake
    \/ CompletionReturns
    \/ CompletionRaises
    \/ TransformDone

SpecProcessor == Init /\ [][NextProcessor]_vars

-----------------------------------------------------------------------------
(* Claims about TextProcessor, checked under SpecProcessor *)

\* C28: correct, expand, translate and summarize complete through
\* complete_with_fallback: when the active provider fails and a fallback is
\* configured, the fallback is invoked, and when it succeeds the operation
\* returns the fallback's completion content, not a failure placeholder.
C28_TransformsUseFallback ==
    (proc.pc = "returned" /\ proc.e # NoError /\ proc.fallback # None)
    => /\ call.inv = 2
       /\ call.kind = proc.fallback
       /\ call.pc = "returned"
          => /\ proc.processed_text = Content(call.result.content)
             /\ proc.confidence = Confidence(proc.op)

-----------------------------------------------------------------------------
(* SpecThreads: two threads call match_strategies on one StrategyMatcher *)

\* match_strategies and _finalize_matches take no lock: a thread can be
\* preempted between any two accesses to self._match_cache. Each action below is
\* one such access by one thread; the threads pass no context and no
\* preferences.
ThreadTexts == {TypoText, CodeText, EmailText, LongText}

Frame(t) == threads[t]
Becomes(t, f) ==
    /\ threads' = [threads EXCEPT ![t] = f]
    /\ UNCHANGED <<mgrVars, ioVars, mgr, call, strm, yielded, last, deps, chain,
                   exec, engine>>

\* cache_key = self._generate_cache_key(text, context)
ThreadCalls(t) ==
    /\ Frame(t).pc = "idle"
    /\ \E text \in ThreadTexts :
          Becomes(t, [IdleThread EXCEPT !.pc = "test", !.text = text,
                         !.cache_key = generate_cache_key(text, NoContext)])
    /\ UNCHANGED cache

\* if cache_key in self._match_cache: ... else: the detectors and the sort, which
\* touch the thread's own list only
ThreadTests(t) ==
    /\ Frame(t).pc = "test"
    /\ Becomes(t, IF InCache(Frame(t).cache_key)
                  THEN [Frame(t) EXCEPT !.pc = "read"]
                  ELSE [Frame(t) EXCEPT !.pc = "len",
                           !.matches = sort(detect_matches(Frame(t).text, NoPreferences))])
    /\ UNCHANGED cache

\* matches = self._match_cache[cache_key]; return matches
ThreadReads(t) ==
    /\ Frame(t).pc = "read"
    /\ Becomes(t, IF InCache(Frame(t).cache_key)
                  THEN [Frame(t) EXCEPT !.pc = "returned",
                           !.result = cache[IndexOf(Frame(t).cache_key)].matches]
                  ELSE [Frame(t) EXCEPT !.pc = "raised", !.raised = "KeyError"])
    /\ UNCHANGED cache

\* if len(self._match_cache) > self._cache_size:
ThreadMeasures(t) ==
    /\ Frame(t).pc = "len"
    /\ Becomes(t, [Frame(t) EXCEPT !.pc = IF Len(cache) > cache_size
                                          THEN "iter" ELSE "store"])
    /\ UNCHANGED cache

\* iter(self._match_cache)
ThreadIterates(t) ==
    /\ Frame(t).pc = "iter"
    /\ Becomes(t, [Frame(t) EXCEPT !.pc = "next", !.used = Len(cache)])
    /\ UNCHANGED cache

\* oldest_key = next(...): RuntimeError when the dict changed size since iter()
ThreadPicksOldest(t) ==
    /\ Frame(t).pc = "next"
    /\ Becomes(t, IF Len(cache) # Frame(t).used
                  THEN [Frame(t) EXCEPT !.pc = "raised", !.raised = "RuntimeError"]
                  ELSE [Frame(t) EXCEPT !.pc = "del", !.oldest_key = cache[1].key])
    /\ UNCHANGED cache

\* del self._match_cache[oldest_key]
ThreadDeletes(t) ==
    /\ Frame(t).pc = "del"
    /\ IF InCache(Frame(t).oldest_key)
       THEN /\ cache' = SelectSeq(cache, LAMBDA e : e.key # Frame(t).oldest_key)
            /\ Becomes(t, [Frame(t) EXCEPT !.pc = "store"])
       ELSE /\ cache' = cache
            /\ Becomes(t, [Frame(t) EXCEPT !.pc = "raised", !.raised = "KeyError"])

\* self._match_cache[cache_key] = matches.copy(); return matches
ThreadStores(t) ==
    /\ Frame(t).pc = "store"
    /\ LET entry == [key |-> Frame(t).cache_key, matches |-> Frame(t).matches] IN
       cache' = IF InCache(entry.key)
                THEN [cache EXCEPT ![IndexOf(entry.key)] = entry]
                ELSE Append(cache, entry)
    /\ Becomes(t, [Frame(t) EXCEPT !.pc = "returned", !.result = Frame(t).matches])

\* The caller on the thread has the list or the exception; the frame is gone.
ThreadDone(t) ==
    /\ Frame(t).pc \in {"returned", "raised"}
    /\ Becomes(t, IdleThread)
    /\ UNCHANGED cache

NextThreads ==
    \E t \in Threads :
        \/ ThreadCalls(t)
        \/ ThreadTests(t)
        \/ ThreadReads(t)
        \/ ThreadMeasures(t)
        \/ ThreadIterates(t)
        \/ ThreadPicksOldest(t)
        \/ ThreadDeletes(t)
        \/ ThreadStores(t)
        \/ ThreadDone(t)

SpecThreads == Init /\ [][NextThreads]_vars

-----------------------------------------------------------------------------
(* Claims about concurrent use of StrategyMatcher, checked under SpecThreads *)

\* The largest size the cache reaches when the calls do not interleave: the
\* size test is made before the insertion and is strict.
SequentialBound == cache_size + 1

\* C29: when two match_strategies calls on one matcher interleave, two
\* insertions that both evict included, neither call fails, every cached entry
\* maps a fingerprint to the match list computed for its text, and the cache
\* stays within the size that calls made one after the other keep it to.
C29_ConcurrentCallsDoNotCorrupt ==
    /\ \A t \in Threads : threads[t].raised = None
    /\ \A i \in 1..Len(cache) :
          \E text \in ThreadTexts :
              /\ cache[i].key = generate_cache_key(text, NoContext)
              /\ cache[i].matches = MissResult(text, NoPreferences)
    /\ Len(cache) <= SequentialBound

-----------------------------------------------------------------------------
(* Provider.test_connection, and SpecProvider: one provider serving complete and
   test_connection calls *)

\* What the probe's client.post can end in: the outcomes of a completion request
\* and two more statuses.
ProbeOutcomes == Outcomes \cup {Response(201), Response(404)}

\* except Exception: the clause matches every exception client.post raises.
ExceptTimeoutOnly(exc) == exc = "TimeoutException"
ExceptException(exc) == TRUE

\* try: async with httpx.AsyncClient() as client: response = await client.post(...)
test_connection(kind) ==
    /\ probe.pc = "idle"
    /\ probe' = [IdleProbe EXCEPT !.pc = "awaiting", !.kind = kind]
    /\ UNCHANGED <<strategyVars, mgrVars, proc, resp, cfg, mgr, call, strm, yielded>>

\* return response.status_code == 200, or except Exception: return False
ProbeAnswered ==
    /\ probe.pc = "awaiting"
    /\ \E o \in ProbeOutcomes :
          probe' =
             IF o.exc = "none"
             THEN [probe EXCEPT !.pc = "returned", !.outcome = o,
                                !.result = (o.status = 200)]
             ELSE IF ExceptException(o.exc)
             THEN [probe EXCEPT !.pc = "returned", !.outcome = o, !.result = FALSE]
             ELSE [probe EXCEPT !.pc = "raised", !.outcome = o, !.raised = o.exc]
    /\ UNCHANGED <<strategyVars, mgrVars, proc, resp, cfg, mgr, call, strm, yielded>>

\* The caller has the answer; the frame is gone.
ProbeDone ==
    /\ probe.pc \in {"returned", "raised"}
    /\ probe' = IdleProbe
    /\ UNCHANGED <<strategyVars, mgrVars, proc, resp, cfg, mgr, call, strm, yielded>>

TestConnection == \E kind \in ProviderKinds : test_connection(kind)

NextProvider ==
    Complete \/ Post \/ Wake \/ Done \/ TestConnection \/ ProbeAnswered \/ ProbeDone

SpecProvider == Init /\ [][NextProvider]_vars

-----------------------------------------------------------------------------
(* Claims about Provider.test_connection, checked under SpecProvider *)

\* C30: test_connection never raises; it returns true if and only if its one
\* probe request is answered with HTTP 200, and false for every other status
\* and for every error raised while the request is issued.
C30_TestConnectionTrueIffStatus200 ==
    /\ probe.pc # "raised"
    /\ probe.raised = None
    /\ probe.pc = "returned" => (probe.result <=> probe.outcome = Response(200))

\* The probe's connection failed and test_connection returned false.
C30_Witness ==
    /\ probe.pc = "returned"
    /\ probe.outcome = OtherError
    /\ probe.result = FALSE

-----------------------------------------------------------------------------
(* Claims about the detection table of match_strategies, checked under SpecMatcher *)

\* A cache miss made with default preferences on a text without code signature.
DefaultMiss ==
    /\ Called
    /\ ~last.hit
    /\ last.preferences = DefaultPreferences
    /\ ~detect_code(last.text)

\* The kind, confidence and priority the table gives the match of a detector,
\* the detector named by the patterns of the match.
TableValue(m) ==
    CASE m.matched_patterns = <<"typo_detected">> ->
            m.strategy_type = "correction" /\ m.confidence = 95 /\ m.priority = HIGH
      [] m.matched_patterns = <<"translation_candidate">> ->
            m.strategy_type = "translation" /\ m.confidence = 85 /\ m.priority = MEDIUM
      [] m.matched_patterns = <<"short_text", "expansion_candidate">> ->
            m.strategy_type = "expansion" /\ m.confidence = 75 /\ m.priority = MEDIUM
      [] m.matched_patterns = <<"email_context">> ->
            m.strategy_type = "custom" /\ m.confidence = 80 /\ m.priority = LOW
      [] m.matched_patterns = <<"chat_context">> ->
            m.strategy_type = "custom" /\ m.confidence = 80 /\ m.priority = LOW
      [] OTHER -> FALSE

\* C31: on a cache miss with default preferences, when the typo detector fires
\* and the text holds no code signature, the result holds a CORRECTION match
\* with confidence 0.95, priority HIGH and pattern typo_detected, ranked first;
\* the match of every other detector carries the value of the table.
C31_TypoMatchRankedFirst ==
    DefaultMiss
    => /\ detect_typos(last.text)
          => /\ last.raised = None
             /\ Len(last.result) >= 1
             /\ last.result[1] =
                   StrategyMatch("correction", 95, <<"typo_detected">>, HIGH, "")
       /\ \A i \in 1..Len(last.result) : TableValue(last.result[i])

C31_Witness ==
    /\ DefaultMiss
    /\ last.text = TypoText
    /\ Len(last.result) = 2
    /\ last.result[1].strategy_type = "correction"
    /\ last.result[2].strategy_type = "translation"

\* C32: a call on a mixed-language text without a code signature, with
\* translation and expansion enabled, returns a translation or an expansion
\* candidate match and no code-protect match.
MixedCall ==
    /\ Called
    /\ last.text = MixedText
    /\ last.preferences.given
    /\ last.preferences.translation_enabled
    /\ last.preferences.expansion_enabled

C32_MixedTextIsTranslationOrExpansion ==
    MixedCall =>
        /\ last.raised = None
        /\ Len(last.result) >= 1
        /\ \A i \in 1..Len(last.result) :
               /\ last.result[i].strategy_type \in {"translation", "expansion"}
               /\ last.result[i].metadata # "protect_code"

-----------------------------------------------------------------------------
(* Further claims about ProviderManager, checked under SpecManager *)

ActiveFailedAlone ==
    /\ mgr.op = "complete"
    /\ mgr.pc = "raised"
    /\ Len(mgr.events) = 2
    /\ mgr.events[2].ev = "fail" /\ mgr.events[2].role = "active"

\* C33: when the active provider's complete fails and no fallback kind is
\* configured, complete_with_fallback re-raises the active provider's exception
\* unchanged and invokes no second provider.
C33_NoFallbackReraisesActiveError ==
    /\ [][(/\ mgr.op = "complete" /\ mgr.pc = "active" /\ call.pc = "raised"
           /\ fallback_provider = None
           /\ mgr' # mgr)
          => /\ mgr'.pc = "raised"
             /\ mgr'.error = call.error
             /\ mgr'.e = call.error
             /\ mgr'.result = NoResult
             /\ Starts(mgr'.events) = {1}
             /\ mgr'.events[2] = Event("fail", "active", call.kind)
             /\ call' = call]_vars
    /\ [](ActiveFailedAlone => /\ mgr.error = mgr.e
                               /\ mgr.error = call.error
                               /\ mgr.error.inv = 1
                               /\ call.inv = 1)

C33_Witness ==
    /\ ActiveFailedAlone
    /\ fallback_provider = None
    /\ DOMAIN providers = ProviderKinds
    /\ mgr.events[1] = Event("start", "active", "anthropic")
    /\ mgr.error.exc = "Max retries exceeded"
    /\ call.inv = 1

-----------------------------------------------------------------------------
(* The order of build_chain's output, checked under SpecChain *)

\* The positions of the matches of a kind, the priority under which build_chain
\* visits the kind first, and where in the input that match stands.
MatchesOf(kind) ==
    {i \in 1..Len(chain.matches) : chain.matches[i].strategy_type = kind}
PriorityOf(kind) ==
    CHOOSE p \in {chain.matches[i].priority : i \in MatchesOf(kind)} :
        \A i \in MatchesOf(kind) : chain.matches[i].priority <= p
FirstVisit(kind) ==
    CHOOSE i \in MatchesOf(kind) :
        /\ chain.matches[i].priority = PriorityOf(kind)
        /\ \A j \in MatchesOf(kind) :
              chain.matches[j].priority = PriorityOf(kind) => i <= j

\* The positions of the output emitted as the kind of a match, and the
\* dependencies emitted for the one at position i: those after the previous one.
AsMatch == {i \in 1..Len(chain.result) : chain.result[i].role = "match"}
PreviousMatch(i) ==
    IF \E j \in AsMatch : j < i
    THEN CHOOSE j \in AsMatch : j < i /\ \A k \in AsMatch : k < i => k <= j
    ELSE 0
FirstDeclared(kind, dep) ==
    CHOOSE n \in 1..Len(deps[kind]) :
        deps[kind][n] = dep /\ \A m \in 1..(n - 1) : deps[kind][m] # dep

\* C34: build_chain visits the matches by descending priority, ties in input
\* order; for each match whose kind is not yet processed it appends the kind's
\* declared dependencies that are not yet emitted, in declared order, and then
\* the kind. So of two kinds emitted as the kind of a match the one of higher
\* priority comes first, and every matched kind is in the output.
C34_ChainFollowsPriority ==
    chain.pc = "returned" =>
        /\ \A i \in AsMatch : \A j \in AsMatch :
              i < j =>
                 /\ MatchesOf(Output[i]) # {} /\ MatchesOf(Output[j]) # {}
                 /\ PriorityOf(Output[i]) >= PriorityOf(Output[j])
                 /\ PriorityOf(Output[i]) = PriorityOf(Output[j])
                       => FirstVisit(Output[i]) < FirstVisit(Output[j])
        /\ \A i \in AsMatch :
              LET from == PreviousMatch(i) + 1
                  before == {Output[n] : n \in 1..(from - 1)}
              IN  /\ {Output[n] : n \in from..(i - 1)}
                        = DependenciesOf(Output[i]) \ before
                  /\ \A p \in from..(i - 1) : \A q \in from..(i - 1) :
                        p < q => FirstDeclared(Output[i], Output[p])
                                    < FirstDeclared(Output[i], Output[q])
        /\ \A i \in 1..Len(chain.result) :
              chain.result[i].role = "dependency"
              => \E j \in AsMatch : i < j /\ PreviousMatch(j) < i
        /\ \A n \in 1..Len(chain.matches) :
              \E i \in 1..Len(Output) : Output[i] = chain.matches[n].strategy_type

C34_Witness ==
    /\ chain.pc = "returned"
    /\ deps = [NoDependencies EXCEPT !["correction"] = <<"expansion">>]
    /\ chain.matches = <<StrategyMatch("correction", 80, <<>>, MEDIUM, ""),
                         StrategyMatch("translation", 80, <<>>, HIGH, "")>>
    /\ Output = <<"translation", "expansion", "correction">>

-----------------------------------------------------------------------------
(* Claims about cache hits of match_strategies, checked under SpecMatcher *)

\* C35: a cache hit leaves the cache unchanged: the entry under the call's
\* fingerprint holds the same matches with the same priorities after the call as
\* before it, whatever the preferences of the call, priority overrides included.
C35_CacheHitLeavesCacheUnchanged ==
    [][last'.hit => cache' = cache]_vars

\* What a call with the given preferences receives from a stored list.
Received(matches, preferences) ==
    IF preferences.given THEN ApplyPreferences(matches, preferences).result
    ELSE matches

\* C36: a cache hit runs no detector and returns the entry stored under the
\* fingerprint, which covers text[:100] and the sorted context items only (an
\* empty context counting as none): the list a hit returns is the list computed
\* on the miss of a call with the same first 100 characters and an equal
\* context, as the preferences of the hit let it through.
C36_HitReturnsListComputedForSameFingerprint ==
    [][(last'.hit /\ last'.raised = None)
       => \E c \in Calls : \E preferences \in Preferences :
             /\ First100(c[1]) = First100(last'.text)
             /\ c[2].items = last'.context.items
             /\ last'.result
                   = Received(MissResult(c[1], preferences), last'.preferences)]_vars

\* C37: a complete_with_fallback call that is suspended in the active provider's
\* complete goes on with the provider that was active when it started, whatever
\* set_active_provider does meanwhile; the fallback is looked up when the active
\* provider fails, so a set_fallback_provider made while the call is in flight
\* decides which fallback the call uses.
C37_ActiveFixedAtStartFallbackAtFailure ==
    /\ [][(mgr.pc = "idle" /\ mgr'.op = "complete" /\ mgr'.pc = "active")
          => /\ call'.kind = active_provider
             /\ mgr'.events = <<Event("start", "active", active_provider)>>]_vars
    /\ [][(mgr.op = "complete" /\ mgr.pc = "active" /\ mgr'.pc = "active")
          => /\ call'.kind = call.kind
             /\ call'.inv = 1
             /\ mgr'.events = mgr.events]_vars
    /\ [](mgr.op = "complete" /\ mgr.pc = "active"
            => call.kind = mgr.events[1].kind)
    /\ [][(/\ mgr.op = "complete" /\ mgr.pc = "active" /\ call.pc = "raised"
           /\ mgr' # mgr)
          => IF fallback_provider = None
             THEN mgr'.pc = "raised" /\ call' = call
             ELSE /\ mgr'.pc = "fallback"
                  /\ call'.kind = fallback_provider
                  /\ mgr'.events[3] = Event("start", "fallback", fallback_provider)]_vars

C37_Witness ==
    /\ mgr.op = "complete"
    /\ mgr.pc = "fallback"
    /\ mgr.events[1] = Event("start", "active", "anthropic")
    /\ active_provider = "openai"
    /\ mgr.fallback_at_start = "openai"
    /\ fallback_provider = "local"
    /\ call.kind = "local"
    /\ call.inv = 2

-----------------------------------------------------------------------------
(* What the TextProcessor operations return, checked under SpecProcessor *)

\* C38: correct, expand, translate and summarize never raise. With no active
\* provider they return the configure-provider placeholder with confidence 0.0
\* and invoke no provider; when the provider's complete fails they return the
\* failure placeholder with confidence 0.0; original_text is always the input.
C38_TransformsNeverRaise ==
    /\ [](proc.pc # "raised" /\ proc.raised = None)
    /\ [](proc.pc = "returned" => proc.original_text = proc.text
                                  /\ proc.text \in ProcessorTexts)
    /\ [][(proc.pc = "idle" /\ proc' # proc /\ active_provider = None)
          => /\ proc'.pc = "returned"
             /\ proc'.processed_text = NotConfigured
             /\ proc'.confidence = 0
             /\ call' = IdleCall]_vars
    /\ [][(proc.pc = "awaiting" /\ call.pc = "raised" /\ proc' # proc)
          => /\ proc'.pc = "returned"
             /\ proc'.processed_text = Failure(proc.op, call.error)
             /\ proc'.confidence = 0
             /\ proc'.text = proc.text]_vars
    /\ [](proc.pc = "returned" /\ proc.confidence = 0
            => \/ proc.processed_text = NotConfigured /\ call = IdleCall
               \/ proc.processed_text = Failure(proc.op, call.error)
                  /\ call.pc = "raised")

C38_Witness ==
    /\ proc.pc = "returned"
    /\ proc.op = "translate"
    /\ proc.text = MixedText
    /\ proc.original_text = MixedText
    /\ call.pc = "raised"
    /\ call.error.exc = "ConnectError"
    /\ proc.processed_text = Failure("translate", call.error)
    /\ proc.confidence = 0

-----------------------------------------------------------------------------
(* RimeClient: callbacks and _process_message *)

\* The largest number of callbacks registered for one kind of message.
MaxCallbacks == 2

\* What is left alone by the RimeClient.
notRime ==
    <<providers, active_provider, fallback_provider, mgr, call, strm, yielded,
      cache, last, deps, chain, exec, engine, threads, proc, resp, probe, cfg>>

\* The callbacks the observers register, named by what a call of them does, and
\* the values of data.get("type", "").
Callbacks == {"returns", "raises"}
MessageTypes == {"context", "suggestion", "status"}

\* self.context_callbacks.append(callback)
on_context(callback) ==
    /\ Len(rime.context_callbacks) < MaxCallbacks
    /\ rime' = [rime EXCEPT !.context_callbacks = Append(@, callback)]
    /\ UNCHANGED <<notRime, tasks>>

\* self.suggestion_callbacks.append(callback)
on_suggestion(callback) ==
    /\ Len(rime.suggestion_callbacks) < MaxCallbacks
    /\ rime' = [rime EXCEPT !.suggestion_callbacks = Append(@, callback)]
    /\ UNCHANGED <<notRime, tasks>>

\* The list _process_message iterates over for a message of the given type.
CallbackList(type) ==
    IF type = "context" THEN "context_callbacks" ELSE "suggestion_callbacks"
CallbacksFor(type) == rime[CallbackList(type)]

\* _process_message(data): a message of another type is dropped.
process_message(type) ==
    /\ tasks.pc = "idle"
    /\ tasks' = IF type \in {"context", "suggestion"}
                THEN [tasks EXCEPT !.pc = "iterating", !.type = type, !.i = 1,
                                   !.invoked = <<>>]
                ELSE [tasks EXCEPT !.pc = "returned", !.type = type, !.i = 0,
                                   !.invoked = <<>>]
    /\ UNCHANGED <<notRime, rime>>

\* except Exception as e: logger.error(...), inside the loop
BreaksLoop(callback) == FALSE
LogsError(callback) == TRUE

\* for callback in self.<kind>_callbacks: try: callback(...) (awaited when it is
\* a coroutine function, so that the client's other methods can run meanwhile)
\* except Exception: log. The iterator of a list sees what is appended to the
\* list while the loop runs.
InvokeCallback ==
    /\ tasks.pc = "iterating"
    /\ tasks.i <= Len(CallbacksFor(tasks.type))
    /\ LET callback == CallbacksFor(tasks.type)[tasks.i]
           called == [tasks EXCEPT
                        !.invoked = Append(@, [list |-> CallbackList(tasks.type),
                                               callback |-> callback]),
                        !.i = @ + 1]
       IN  tasks' = IF callback = "raises" /\ ~LogsError(callback)
                    THEN [called EXCEPT !.pc = "raised"]
                    ELSE called
    /\ UNCHANGED <<notRime, rime>>

\* The loop is over.
EndOfCallbacks ==
    /\ tasks.pc = "iterating"
    /\ tasks.i > Len(CallbacksFor(tasks.type))
    /\ tasks' = [tasks EXCEPT !.pc = "returned"]
    /\ UNCHANGED <<notRime, rime>>

\* _message_handler has the outcome; the frame is gone.
MessageProcessed ==
    /\ tasks.pc \in {"returned", "raised"}
    /\ tasks' = [tasks EXCEPT !.pc = "idle", !.type = None, !.i = 0,
                              !.invoked = <<>>]
    /\ UNCHANGED <<notRime, rime>>

OnContext == \E callback \in Callbacks : on_context(callback)
OnSuggestion == \E callback \in Callbacks : on_suggestion(callback)
ProcessMessage == \E type \in MessageTypes : process_message(type)

NextCallbacks ==
    \/ OnContext
    \/ OnSuggestion
    \/ ProcessMessage
    \/ InvokeCallback
    \/ EndOfCallbacks
    \/ MessageProcessed

SpecCallbacks == Init /\ [][NextCallbacks]_vars

-----------------------------------------------------------------------------
(* Claims about RimeClient's callbacks, checked under SpecCallbacks *)

\* The calls the loop makes when it calls each callback of the list once, in the
\* order of registration.
EachOnce(type) ==
    [n \in 1..Len(CallbacksFor(type)) |->
        [list |-> CallbackList(type), callback |-> CallbacksFor(type)[n]]]

\* C39: processing a context or suggestion message calls every callback
\* registered for that kind exactly once, in registration order, also when
\* earlier callbacks raise, and no callback's exception leaves the processing.
C39_EveryCallbackInvokedOnceInOrder ==
    /\ [](tasks.pc # "raised")
    /\ [](tasks.pc = "iterating"
            => /\ Len(tasks.invoked) = tasks.i - 1
               /\ tasks.invoked = SubSeq(EachOnce(tasks.type), 1, tasks.i - 1))
    /\ [][(tasks.pc = "iterating" /\ tasks'.pc # "iterating")
          => /\ tasks'.pc = "returned"
             /\ tasks'.invoked = EachOnce(tasks.type)
             /\ rime' = rime]_vars

C39_Witness ==
    /\ tasks.pc = "returned"
    /\ tasks.type = "context"
    /\ rime.context_callbacks = <<"raises", "returns">>
    /\ rime.suggestion_callbacks = <<"returns">>
    /\ tasks.invoked = <<[list |-> "context_callbacks", callback |-> "raises"],
                         [list |-> "context_callbacks", callback |-> "returns"]>>

-----------------------------------------------------------------------------
(* RimeClient: connect, _message_handler and _reconnect *)

\* The largest number of tasks of one client that are connecting, iterating over
\* a websocket or sleeping before a reconnection.
MaxTasks == 3

\* self._max_reconnect_attempts = 3
max_reconnect_attempts == 3

Tasks == tasks.handlers + tasks.sleeping + tasks.connecting

\* connect(), up to "await self.websocket_module.connect(...)". Without the
\* websockets package the import raises and the client goes into mock mode.
connect ==
    /\ Tasks < MaxTasks
    /\ \E found \in IF tasks.websockets = "unknown" THEN {"installed", "missing"}
                    ELSE {tasks.websockets} :
          IF found = "installed"
          THEN /\ rime' = [rime EXCEPT !.websocket_module = "websockets"]
               /\ tasks' = [tasks EXCEPT !.websockets = found, !.connecting = @ + 1]
          ELSE /\ rime' = [rime EXCEPT !.mock_mode = TRUE, !.connected = TRUE]
               /\ tasks' = [tasks EXCEPT !.websockets = found]
    /\ UNCHANGED notRime

\* websockets.connect returned: self.connected = True; self._reconnect_attempts
\* = 0; self._mock_mode = False; asyncio.create_task(self._message_handler())
ConnectSucceeds ==
    /\ tasks.connecting > 0
    /\ rime' = [rime EXCEPT !.websocket = "websocket", !.connected = TRUE,
                            !.reconnect_attempts = 0,
                            !.mock_mode = FALSE]
    /\ tasks' = [tasks EXCEPT !.connecting = @ - 1, !.handlers = @ + 1,
                              !.current = TRUE, !.closed = FALSE]
    /\ UNCHANGED notRime

\* except Exception as e: self.connected = False; return False
ConnectFails ==
    /\ tasks.connecting > 0
    /\ rime' = [rime EXCEPT !.connected = FALSE]
    /\ tasks' = [tasks EXCEPT !.connecting = @ - 1]
    /\ UNCHANGED notRime

\* disconnect(): if self.websocket: close it, forget it, connected = False. The
\* handler that iterates over this websocket, if it still runs, comes to the end
\* of its iteration.
disconnect ==
    /\ rime.websocket # None
    /\ rime' = [rime EXCEPT !.websocket = None, !.connected = FALSE]
    /\ tasks' = IF tasks.current
                THEN [tasks EXCEPT !.handlers = @ - 1, !.current = FALSE]
                ELSE tasks
    /\ UNCHANGED notRime

\* The handlers one of which an event can concern: TRUE for the one that
\* iterates over self.websocket, FALSE for one left from an earlier connect.
Handlers ==
    {c \in BOOLEAN : IF c THEN tasks.current
                              ELSE tasks.handlers > (IF tasks.current THEN 1 ELSE 0)}
Without(c) ==
    [tasks EXCEPT !.handlers = @ - 1, !.current = IF c THEN FALSE ELSE @]

\* _reconnect(), up to "await asyncio.sleep(2)"
reconnect(client) ==
    IF client.reconnect_attempts < max_reconnect_attempts
    THEN [client |-> [client EXCEPT !.reconnect_attempts = @ + 1], sleeps |-> 1]
    ELSE [client |-> client, sleeps |-> 0]

\* _message_handler: the iteration over the websocket raises ConnectionClosed:
\* self.connected = False; await self._reconnect()
ConnectionClosed ==
    /\ \E c \in Handlers :
          LET r == reconnect([rime EXCEPT !.connected = FALSE]) IN
          /\ rime' = r.client
          /\ tasks' = [Without(c) EXCEPT !.sleeping = @ + r.sleeps, !.closed = TRUE]
    /\ UNCHANGED notRime

\* _message_handler ends without ConnectionClosed: self.websocket is None, or
\* another exception (of json.loads, say) is logged by "except Exception as e".
HandlerEnds ==
    /\ \E c \in Handlers : tasks' = Without(c)
    /\ UNCHANGED <<notRime, rime>>

\* _reconnect after the sleep: await self.connect(), and nothing after it
SleepOver ==
    /\ tasks.sleeping > 0
    /\ tasks' = [tasks EXCEPT !.sleeping = @ - 1, !.connecting = @ + 1]
    /\ UNCHANGED <<notRime, rime>>

NextRime ==
    \/ connect
    \/ ConnectSucceeds
    \/ ConnectFails
    \/ disconnect
    \/ ConnectionClosed
    \/ HandlerEnds
    \/ SleepOver

SpecRime == Init /\ [][NextRime]_vars

\* asyncio.sleep(2) ends and websockets.connect returns or raises (it has a
\* timeout); when the peer closes and what the user calls is up to them.
FairSpecRime ==
    /\ SpecRime
    /\ WF_vars(SleepOver)
    /\ WF_vars(ConnectSucceeds \/ ConnectFails)

-----------------------------------------------------------------------------
(* Claims about RimeClient's reconnection, checked under FairSpecRime *)

\* C40: after the connection is closed the client keeps attempting to
\* reconnect until a connection succeeds or max_reconnect_attempts attempts in
\* a row have failed; the attempt counter never exceeds that maximum and a
\* successful connection resets it to 0.
C40_ReconnectsUntilSuccessOrMaxAttempts ==
    /\ [](rime.reconnect_attempts <= max_reconnect_attempts)
    /\ [][(tasks'.handlers > tasks.handlers) => rime'.reconnect_attempts = 0]_vars
    /\ (tasks.closed /\ ~rime.connected)
          ~> (rime.connected \/ rime.reconnect_attempts = max_reconnect_attempts)

====
